---- MODULE Spec2Model ----
(***************************************************************************)
(* A model of milvus-project-helper: the command line layer that creates, *)
(* drops and rotates the password of a "project" (database, role, user)   *)
(* on a Milvus service, in its two variants                               *)
(*   "helper"   : src/src/milvus_project_helper (cli.py, project.py,      *)
(*                utils.py)                                               *)
(*   "workflow" : src/src/milvus_workflow (cli.py, core.py)               *)
(*                                                                         *)
(* The service is the environment.  Its state is the set of databases,    *)
(* users, roles, the privileges granted to each role, the roles bound to  *)
(* each user and each user's password.  list_users() and list_roles()     *)
(* take no database argument (project.py:60-61): the model lets them      *)
(* answer from one cluster-wide namespace.  Every call to the service may *)
(* raise (a transport failure, "fault"), and the service refuses          *)
(* ("refused") a create of a name that exists, a drop of a role that      *)
(* still holds grants, a drop of the active database and a password       *)
(* update whose old password is wrong.  using_database() only changes the *)
(* client's own state and does not raise.                                  *)
(*                                                                         *)
(* Each command invocation is a session with its own MilvusClient; one    *)
(* action models one call made on that client, so that a failure between  *)
(* two calls is a state of the model.                                     *)
(*                                                                         *)
(*   Spec     one command line, with any arguments, on any service state  *)
(*   SpecTrip an operator running successive commands on one project      *)
(*   SpecAgain an operator running successive reporting commands         *)
(*   SpecRace two operators running create for one project concurrently   *)
(*   SpecPw   the password check applied to a family of passwords         *)
(*   SpecNaming the naming of the resources from the command line options *)
(***************************************************************************)
EXTENDS Naturals, Sequences, FiniteSets, TLC

\* ------------------------------------------------------------- bounds

\* Free characters of a checked password, and the padding appended to them.
MaxFree == 4
MaxPad == 5
\* Calls the service lets fail by a transport fault in one behaviour.
MaxFaults == 1
\* Commands the operator of SpecTrip runs after the first one.
MaxRestarts == 2

\* ------------------------------------------------- password policy (utils.py)

PASSWORD_MIN_LENGTH == 8

MIN_LENGTH == "Password must be at least 8 characters long"
UPPERCASE == "Password must contain at least one uppercase letter"
LOWERCASE == "Password must contain at least one lowercase letter"
DIGIT == "Password must contain at least one digit"
SPECIAL == "Password must contain at least one special character"

\* str.isupper / islower / isdigit on the one-character strings of the model.
UpperChars ==
  {"A","B","C","D","E","F","G","H","I","J","K","L","M",
   "N","O","P","Q","R","S","T","U","V","W","X","Y","Z"}

LowerChars ==
  {"a","b","c","d","e","f","g","h","i","j","k","l","m",
   "n","o","p","q","r","s","t","u","v","w","x","y","z"}

DigitChars == {"0","1","2","3","4","5","6","7","8","9"}

\* The literal "!@#$%^&*()-+" of the last rule.
SpecialChars == {"!","@","#","$","%","^","&","*","(",")","-","+"}

AnyChar(password, class) == \E i \in 1..Len(password) : password[i] \in class

\* A variant that tests for an uppercase letter before it tests the length.
check_password_strength_UpperFirst(password) ==
  IF ~AnyChar(password, UpperChars) THEN UPPERCASE
  ELSE IF Len(password) < PASSWORD_MIN_LENGTH THEN MIN_LENGTH
  ELSE IF ~AnyChar(password, LowerChars) THEN LOWERCASE
  ELSE IF ~AnyChar(password, DigitChars) THEN DIGIT
  ELSE IF ~AnyChar(password, SpecialChars) THEN SPECIAL
  ELSE "ok"

\* A variant that also rejects a password of exactly the minimum length.
check_password_strength_OffByOne(password) ==
  IF Len(password) <= PASSWORD_MIN_LENGTH THEN MIN_LENGTH
  ELSE IF ~AnyChar(password, UpperChars) THEN UPPERCASE
  ELSE IF ~AnyChar(password, LowerChars) THEN LOWERCASE
  ELSE IF ~AnyChar(password, DigitChars) THEN DIGIT
  ELSE IF ~AnyChar(password, SpecialChars) THEN SPECIAL
  ELSE "ok"

\* A password is a sequence of one-character strings.  The result is "ok"
\* when the function returns, else the message of the error it raises.
check_password_strength(password) ==
  IF Len(password) < PASSWORD_MIN_LENGTH THEN MIN_LENGTH
  ELSE IF ~AnyChar(password, UpperChars) THEN UPPERCASE
  ELSE IF ~AnyChar(password, LowerChars) THEN LOWERCASE
  ELSE IF ~AnyChar(password, DigitChars) THEN DIGIT
  ELSE IF ~AnyChar(password, SpecialChars) THEN SPECIAL
  ELSE "ok"

\* ------------------------------------------------------- resource naming

\* An optional argument: <<>> is None, <<v>> is the string v.
None == <<>>

\* Python's `opt or dflt`: None and the empty string are both falsy.
OrElse(opt, dflt) == IF opt = None THEN dflt ELSE IF opt[1] = "" THEN dflt ELSE opt[1]

DefaultDatabase(project_name) == "db_" \o project_name
DefaultRole(project_name) == "role_" \o project_name
DefaultUser(project_name) == "user_" \o project_name

\* A variant that takes the role name from the --user-name option.
ResourceNaming_RoleFromUser(project_name, database_name, role_name, user_name) ==
  [project_name |-> project_name,
   database_name |-> OrElse(database_name, DefaultDatabase(project_name)),
   role_name |-> OrElse(user_name, DefaultRole(project_name)),
   user_name |-> OrElse(user_name, DefaultUser(project_name))]

\* ResourceNaming as the two `project create` commands build it, before the
\* password is filled in.
ResourceNaming(project_name, database_name, role_name, user_name) ==
  [project_name |-> project_name,
   database_name |-> OrElse(database_name, DefaultDatabase(project_name)),
   role_name |-> OrElse(role_name, DefaultRole(project_name)),
   user_name |-> OrElse(user_name, DefaultUser(project_name))]

\* A variant of the list that lacks its last privilege.
collection_privileges_NoFlush ==
  <<"CreateIndex", "Load", "Insert", "Delete", "Search", "Query">>

\* The privileges create grants to a role it creates, in the order of the list.
collection_privileges ==
  <<"CreateIndex", "Load", "Insert", "Delete", "Search", "Query", "Flush">>

Grant(privilege) ==
  [privilege |-> privilege, object_type |-> "Collection", object_name |-> "*"]

\* describe_role(role)["privileges"]: the grants of the role, as a list.
describe_role(granted) ==
  SelectSeq([i \in 1..Len(collection_privileges) |-> Grant(collection_privileges[i])],
            LAMBDA g : g \in granted)

\* ------------------------------------------------------------ universes

ProjectNames == {"p"}

\* What the operator may pass for the --database-name, --role-name and
\* --user-name options.
OptDatabase == {None, <<"">>, <<"default">>}
OptRole == {None, <<"admin">>, <<"public">>}
OptUser == {None, <<"root">>}

\* Passwords typed or passed on the command line (tests/utils_test.py).
PwAbc == <<"a","b","c">>
PwNoSpecial == <<"P","a","s","s","w","o","r","d","1","2","3">>
PwMyPassword == <<"M","y","P","@","s","s","w","0","r","d">>
PwStrongPass == <<"S","t","r","o","n","g","P","@","s","s","1">>
\* The password of root on a fresh service.
PwMilvus == <<"M","i","l","v","u","s">>

\* The password of a new user, and the new password of a rotation.
UserPasswords == {PwAbc, PwNoSpecial, PwMyPassword}
NewPasswords == {PwAbc, PwStrongPass}
OldPasswords == {PwMyPassword, PwStrongPass}

\* The characters of the passwords SpecPw checks.
PwAlphabet == {"A", "b", "1", "!", "_"}

Sessions == {1, 2}

UserOrder == <<"root", "user_p", "user_q">>
RoleOrder == <<"admin", "public", "role_p", "role_q">>

Range(seq) == {seq[i] : i \in 1..Len(seq)}

AllGrants == {Grant(collection_privileges[i]) : i \in 1..Len(collection_privileges)}

\* ------------------------------------------------------------------ state

VARIABLES
  databases,   \* the service: names of the databases
  users,       \* the service: names of the users
  roles,       \* the service: names of the roles
  privs,       \* the service: role -> the grants it holds
  userRoles,   \* the service: <<user, role>> bindings
  passwords,   \* the service: user -> password
  faults,      \* the transport faults the service may still produce
  live,        \* the sessions that run commands
  overrides,   \* whether the operator passes name overrides
  pc,          \* session -> where its command stands
  cmd,         \* session -> the command it runs, with its resolved arguments
  ctx,         \* session -> the active database of its MilvusClient
  loc,         \* session -> the local variables of the running function
  log,         \* session -> the calls its command has made on the client
  result,      \* session -> how its command ended
  pre,         \* session -> the service as it was when the command began
  trip,        \* session -> 1 after create(p), 2 after create(p) then drop(p)
  restarts,    \* the commands run after the first one
  password,    \* the input of the password check of SpecPw
  verdict,     \* its result
  collections, \* the service: database -> the collections it holds
  out,         \* session -> the lines its command has logged or echoed
  prev,        \* session -> the command it ran before, as it ended
  naming       \* the arguments and the result of the naming of SpecNaming

svc == <<databases, users, roles, privs, userRoles, passwords, collections>>
vars == <<databases, users, roles, privs, userRoles, passwords, faults,
          live, overrides, pc, cmd, ctx, loc, log, result, pre, trip, restarts,
          password, verdict, collections, out, prev, naming>>

NoCmd ==
  [variant |-> "", op |-> "", project_name |-> "", database_name |-> "",
   role_name |-> "", user_name |-> "", user_password |-> <<>>,
   old_password |-> <<>>, new_password |-> <<>>, recreate |-> FALSE,
   declined |-> FALSE]

NoLoc ==
  [database_exists |-> FALSE, user_exists |-> FALSE, role_exists |-> FALSE,
   i |-> 0, users |-> <<>>, roles |-> <<>>, privileges |-> <<>>, pending |-> "",
   databases |-> <<>>]

Snapshot ==
  [databases |-> databases, users |-> users, roles |-> roles, privs |-> privs]
NoSnapshot ==
  [databases |-> {}, users |-> {}, roles |-> {},
   privs |-> [r \in Range(RoleOrder) |-> {}]]

\* The command a session ran before the current one, kept when it was a
\* describe: none.
NoPrev == [cmd |-> NoCmd, out |-> <<>>, result |-> "none"]

\* The service before the command: the project p provisioned in part or in
\* full, beside root, admin and public, and possibly a second project q.
ServiceInit ==
  /\ databases \in {{"default"}, {"default", "db_p"}}
  /\ users \in {{"root"}, {"root", "user_p"}, {"root", "user_p", "user_q"}}
  /\ roles \in {{"admin", "public"}, {"admin", "public", "role_p"},
                {"admin", "public", "role_p", "role_q"}}
  /\ privs \in {[r \in Range(RoleOrder) |->
                   IF r = "role_p" THEN g
                   ELSE IF r = "role_q" /\ r \in roles THEN {Grant("Load")}
                   ELSE {}] :
                g \in IF "role_p" \in roles
                      THEN {{}, {Grant("Search")}, AllGrants} ELSE {{}}}
  /\ userRoles \in {{<<"root", "admin">>} \cup b :
                    b \in SUBSET ({<<"user_p", "role_p">>} \cap (users \X roles))}
  /\ passwords = [u \in Range(UserOrder) |->
                    IF u \notin users THEN <<>>
                    ELSE IF u = "root" THEN PwMilvus ELSE PwMyPassword]
  /\ collections \in {[d \in {"default", "db_p"} |->
                         IF d = "default" THEN {"c_default"}
                         ELSE IF d \in databases THEN c ELSE {}] :
                       c \in {{}, {"c_p"}}}
  /\ faults = MaxFaults

SessionInit ==
  /\ pc = [s \in Sessions |-> "idle"]
  /\ cmd = [s \in Sessions |-> NoCmd]
  /\ ctx = [s \in Sessions |-> "default"]
  /\ loc = [s \in Sessions |-> NoLoc]
  /\ log = [s \in Sessions |-> <<>>]
  /\ result = [s \in Sessions |-> "none"]
  /\ pre = [s \in Sessions |-> NoSnapshot]
  /\ trip = [s \in Sessions |-> 0]
  /\ restarts = 0
  /\ out = [s \in Sessions |-> <<>>]
  /\ prev = [s \in Sessions |-> NoPrev]

\* No naming is asked for.
NoNaming ==
  [project_name |-> "", database_name |-> None, role_name |-> None,
   user_name |-> None, resolved |-> FALSE,
   names |-> [project_name |-> "", database_name |-> "", role_name |-> "",
              user_name |-> ""]]

Init ==
  /\ ServiceInit
  /\ SessionInit
  /\ live = {1}
  /\ overrides = TRUE
  /\ password = <<>>
  /\ verdict = "unchecked"
  /\ naming = NoNaming

\* --------------------------------------------------------------- helpers

\* list_users() and list_roles(), as lists.
list_users == SelectSeq(UserOrder, LAMBDA u : u \in users)
list_roles == SelectSeq(RoleOrder, LAMBDA r : r \in roles)

\* client.list_databases(), as a list.
DatabaseOrder == <<"default", "db_p">>
list_databases == SelectSeq(DatabaseOrder, LAMBDA d : d \in databases)

\* client.list_collections(): the collections of the active database of s.
CollectionOrder == <<"c_default", "c_p">>
list_collections(s) ==
  SelectSeq(CollectionOrder, LAMBDA c : c \in collections[ctx[s]])

\* A call on the client, as the log keeps it.
Call(s, op, name) ==
  [op |-> op, name |-> name, role |-> "", privilege |-> "", object_type |-> "",
   object_name |-> "", password |-> <<>>, ctx |-> ctx[s], raised |-> "no"]

\* The transport may fail while the service still has faults to produce.
Faults == IF faults > 0 THEN BOOLEAN ELSE {FALSE}

\* How a call ends: "no" (it returns), "fault" or "refused" (it raises).
Outcome(fault, refused) ==
  IF fault THEN "fault" ELSE IF refused THEN "refused" ELSE "no"

Ended(call, how) == [call EXCEPT !.raised = how]

Spend(how) == faults' = IF how = "fault" THEN faults - 1 ELSE faults

\* What a session's step leaves alone whatever it does.
Frame ==
  UNCHANGED <<cmd, pre, live, overrides, trip, restarts, password, verdict, prev,
              naming>>

\* A line of output: what kind of line it is, then the values it shows.
\* format_resource_status(name, exists, resource_type)
format_resource_status(name, exists, resource_type) ==
  <<"status", resource_type, name, IF exists THEN "exists" ELSE "missing">>

\* logger.info(f"\nProject resources for '{project_name}':") and the rule
Heading(c) == <<<<"Project resources for", c.project_name>>, <<"rule">>>>

\* The logger.info lines of create_resources / project_create_resources
\* that follow `call` when it returns.
CreateLogged(s, call) ==
  LET c == cmd[s]
  IN CASE call.op = "list_databases" ->
            Heading(c)
            \o <<format_resource_status(c.database_name,
                                        c.database_name \in databases, "database")>>
            \o (IF c.recreate /\ c.database_name \in databases
                THEN <<<<"Recreating database:">>>> ELSE <<>>)
       [] call.op = "drop_database" -> <<<<"Dropped database">>>>
       [] call.op = "create_database" -> <<<<"Created database">>>>
       [] call.op = "list_roles" ->
            <<format_resource_status(c.user_name, loc[s].user_exists, "user"),
              format_resource_status(c.role_name, c.role_name \in roles, "role")>>
       [] call.op = "drop_user" -> <<<<"Dropped user">>>>
       [] call.op = "drop_role" -> <<<<"Dropped role">>>>
       [] call.op = "create_user" -> <<<<"Created user">>>>
       [] call.op = "create_role" -> <<<<"Created role">>, <<"Granting privileges:">>>>
       [] call.op = "grant_privilege" ->
            <<<<"granted", call.privilege, call.object_type>>>>
       [] call.op = "grant_role" -> <<<<"Assigned role", call.role, call.name>>>>
       [] OTHER -> <<>>

\* The logger.info lines of drop_resources / project_drop_resources.
DropLogged(s, call) ==
  LET c == cmd[s]
  IN CASE call.op = "list_databases" ->
            Heading(c)
            \o <<format_resource_status(c.database_name,
                                        c.database_name \in databases, "database")>>
            \o (IF c.database_name \in databases THEN <<>>
                ELSE <<<<"No resources to drop">>>>)
       [] call.op = "using_database" /\ pc[s] = "dr_using_database"
          /\ c.variant = "helper" -> <<<<"Dropping resources:">>>>
       [] call.op = "list_roles" /\ c.variant = "workflow" ->
            <<format_resource_status(c.user_name, loc[s].user_exists, "user"),
              format_resource_status(c.role_name, c.role_name \in roles, "role"),
              <<"Dropping resources:">>>>
       [] call.op = "drop_user" -> <<<<"Dropped user", call.name>>>>
       [] call.op = "drop_role" -> <<<<"Dropped role", call.name>>>>
       [] call.op = "drop_database" -> <<<<"Dropped database", call.name>>>>
       [] OTHER -> <<>>

\* describe_resources: "Collections:" and one line per collection, or
\* "No collections found in database".
CollectionLines(listed) ==
  IF listed = <<>> THEN <<<<"No collections found in database">>>>
  ELSE <<<<"Collections:">>>> \o [i \in 1..Len(listed) |-> <<"collection", listed[i]>>]

\* describe_resources: if privileges: "Role '{role}':" and one line per
\* privilege.
PrivilegeLines(role, privileges) ==
  IF privileges = <<>> THEN <<>>
  ELSE <<<<"Role", role>>>>
       \o [i \in 1..Len(privileges) |->
             <<"privilege", privileges[i].privilege, privileges[i].object_type>>]

\* The logger.info lines of describe_resources / project_describe_resources
\* between `call` and the call that follows it.
DescribeLogged(s, call) ==
  LET c == cmd[s]
  IN CASE call.op = "list_databases" ->
            Heading(c)
            \o <<format_resource_status(c.database_name,
                                        c.database_name \in databases, "database")>>
            \o (IF c.database_name \in databases THEN <<>>
                ELSE <<<<"No additional information (database does not exist)">>>>)
       [] call.op = "list_collections" ->
            <<format_resource_status(c.role_name, loc[s].role_exists, "role")>>
            \o CollectionLines(list_collections(s))
            \o (IF loc[s].users = <<>> THEN <<>>
                ELSE <<<<"User privileges:">>, <<"User", Head(loc[s].users)>>>>)
       [] call.op = "describe_role" ->
            PrivilegeLines(call.name, describe_role(privs[call.name]))
            \o (IF Len(loc[s].roles) = 1 /\ Len(loc[s].users) > 1
                THEN <<<<"User", loc[s].users[2]>>>> ELSE <<>>)
       [] OTHER -> <<>>

\* The logger.info lines of database.list_all / database_list_all between
\* `call` and the call that follows it; list_collections is called in a
\* try block whose handler logs that the collections cannot be listed.
ListAllLogged(s, call) ==
  CASE call.op = "list_databases" /\ call.raised = "no" ->
         <<<<"Found databases", ToString(Len(list_databases))>>>>
         \o (IF list_databases = <<>> THEN <<>>
             ELSE <<<<"Database", Head(list_databases)>>>>)
    [] call.op = "list_collections" ->
         <<IF call.raised = "no" THEN <<"Collections">> \o list_collections(s)
           ELSE <<"Collections: Unable to list (insufficient privileges)">>>>
         \o (IF Len(loc[s].databases) > 1
             THEN <<<<"Database", loc[s].databases[2]>>>> ELSE <<>>)
    [] OTHER -> <<>>

\* The logger.info lines that follow `call`; none when it raised, unless
\* the function catches what it raised.
Logged(s, call) ==
  IF cmd[s].op = "database-list" THEN ListAllLogged(s, call)
  ELSE IF call.raised # "no" THEN <<>>
  ELSE CASE cmd[s].op = "create" -> CreateLogged(s, call)
         [] cmd[s].op = "drop" -> DropLogged(s, call)
         [] cmd[s].op = "describe" -> DescribeLogged(s, call)
         [] cmd[s].op = "change-password" /\ call.op = "update_password" ->
              <<<<"Successfully updated password for user", cmd[s].user_name>>>>
         [] OTHER -> <<>>

\* typer.echo of the command layer when the command ends with `res`: the
\* message of a handled exception.
Echoed(c, res) ==
  IF res = "PasswordStrengthError"
  THEN <<<<"error", check_password_strength(
                      IF c.op = "create" THEN c.user_password ELSE c.new_password)>>>>
  ELSE IF res = "ResourceExistsError" THEN <<<<"error", res>>>>
  ELSE IF c.op = "change-password" /\ res # "ok" THEN <<<<"error", res>>>>
  ELSE <<>>

\* The command writes `lines` before it reaches the service.
Say(s, lines) == out' = [out EXCEPT ![s] = lines]

\* The call returned and the function goes on at `next`, after the
\* logger.info lines that follow the call.
Goto(s, call, next) ==
  /\ log' = [log EXCEPT ![s] = Append(@, call)]
  /\ pc' = [pc EXCEPT ![s] = next]
  /\ out' = [out EXCEPT ![s] = @ \o Logged(s, call)]
  /\ Spend(call.raised)
  /\ UNCHANGED result
  /\ Frame

\* The command ends with `res`: "ok", or the class of the exception that
\* ended it.
Finish(s, call, res) ==
  /\ log' = [log EXCEPT ![s] = Append(@, call)]
  /\ pc' = [pc EXCEPT ![s] = "done"]
  /\ result' = [result EXCEPT ![s] = res]
  /\ out' = [out EXCEPT ![s] = @ \o Logged(s, call) \o Echoed(cmd[s], res)]
  /\ Spend(call.raised)
  /\ Frame

\* The options the operator chooses from.
Options(opts) == IF overrides THEN opts ELSE {None}

\* The session is at the prompt.
Idle(s) == s \in live /\ pc[s] = "idle"

\* A command line is entered.
Enter(s, c) ==
  /\ cmd' = [cmd EXCEPT ![s] = c]
  /\ ctx' = [ctx EXCEPT ![s] = "default"]
  /\ loc' = [loc EXCEPT ![s] = NoLoc]
  /\ pre' = [pre EXCEPT ![s] = Snapshot]
  /\ UNCHANGED <<svc, live, overrides, trip, restarts, password, verdict, prev,
                 naming>>

\* MilvusClient(uri=uri): the connection, which may fail.
Connect(s, fault, first) ==
  /\ log' = [log EXCEPT ![s] =
               <<Ended(Call(s, "connect", ""), Outcome(fault, FALSE))>>]
  /\ pc' = [pc EXCEPT ![s] = IF fault THEN "done" ELSE first]
  /\ result' = [result EXCEPT ![s] = IF fault THEN "MilvusException" ELSE "running"]
  /\ Spend(Outcome(fault, FALSE))

\* The command ends before it connects.
EndEarly(s, res) ==
  /\ log' = [log EXCEPT ![s] = <<>>]
  /\ pc' = [pc EXCEPT ![s] = "done"]
  /\ result' = [result EXCEPT ![s] = res]
  /\ UNCHANGED faults

\* ------------------------------------------------- project create (cli.py)

\* A password as the text a line would show.
RECURSIVE Text(_)
Text(chars) == IF chars = <<>> THEN "" ELSE Head(chars) \o Text(Tail(chars))

\* A variant that shows the value of every field.
NamingLines_Plain(rn, user_password, dry_run) ==
  LET dict == [project_name |-> rn.project_name,
               database_name |-> rn.database_name,
               role_name |-> rn.role_name,
               user_name |-> rn.user_name,
               user_password |-> IF dry_run THEN "<password>"
                                 ELSE Text(user_password)]
      keys == <<"project_name", "database_name", "role_name", "user_name",
                "user_password">>
  IN <<<<"Setting up project", rn.project_name>>, <<"rule">>,
       <<"Resource naming:">>>>
     \o [i \in 1..Len(keys) |->
           <<keys[i], dict[keys[i]]>>]

\* cli.py project_create: the heading, then
\*   for k, v in resource_names.__dict__.items():
\*     "(not yet set)" if k == "user_password" else v
\* `user_password` is the value of the --user-password option (None: not
\* given); the workflow variant shows "(not set)" under --dry-run.
NamingLines(rn, user_password, dry_run) ==
  LET dict == [project_name |-> rn.project_name,
               database_name |-> rn.database_name,
               role_name |-> rn.role_name,
               user_name |-> rn.user_name,
               user_password |-> IF dry_run THEN "<password>"
                                 ELSE Text(user_password)]
      keys == <<"project_name", "database_name", "role_name", "user_name",
                "user_password">>
  IN <<<<"Setting up project", rn.project_name>>, <<"rule">>,
       <<"Resource naming:">>>>
     \o [i \in 1..Len(keys) |->
           IF keys[i] = "user_password"
           THEN <<keys[i], IF dry_run THEN "(not set)" ELSE "(not yet set)">>
           ELSE <<keys[i], dict[keys[i]]>>]

\* cli.py project_create: naming, confirmation, password prompt and check,
\* connection.  `typed` is what the operator types at the password prompt.
project_create(s) ==
  /\ Idle(s)
  /\ \E project_name \in ProjectNames, database_name \in Options(OptDatabase),
     role_name \in Options(OptRole), user_name \in Options(OptUser),
     user_password \in {<<>>, PwMyPassword}, typed \in UserPasswords,
     yes \in BOOLEAN, confirm \in BOOLEAN, fault \in Faults :
    LET rn == ResourceNaming(project_name, database_name, role_name, user_name)
        pw == IF user_password = <<>> THEN typed ELSE user_password
        c == [NoCmd EXCEPT !.variant = "helper", !.op = "create",
                           !.project_name = rn.project_name,
                           !.database_name = rn.database_name,
                           !.role_name = rn.role_name,
                           !.user_name = rn.user_name,
                           !.declined = ~yes /\ ~confirm]
        said == NamingLines(rn, user_password, FALSE)
    IN IF ~yes /\ ~confirm
       THEN /\ Enter(s, c)
            /\ EndEarly(s, "cancelled")
            /\ Say(s, said \o <<<<"Operation cancelled.">>>>)
       ELSE /\ Enter(s, [c EXCEPT !.user_password = pw])
            /\ IF check_password_strength(pw) # "ok"
               THEN /\ EndEarly(s, "PasswordStrengthError")
                    /\ Say(s, said \o Echoed(cmd'[s], "PasswordStrengthError"))
               ELSE Connect(s, fault, "cr_list_databases") /\ Say(s, said)

\* milvus_workflow/cli.py project_create: the same with --dry-run (default
\* on) in place of the confirmation, and --force as recreate_resources.
workflow_project_create(s) ==
  /\ Idle(s)
  /\ \E project_name \in ProjectNames, database_name \in Options(OptDatabase),
     role_name \in Options(OptRole), user_name \in Options(OptUser),
     user_password \in {<<>>, PwMyPassword}, typed \in UserPasswords,
     dry_run \in BOOLEAN, force \in BOOLEAN, fault \in Faults :
    LET rn == ResourceNaming(project_name, database_name, role_name, user_name)
        pw == IF user_password = <<>> THEN typed ELSE user_password
        c == [NoCmd EXCEPT !.variant = "workflow", !.op = "create",
                           !.project_name = rn.project_name,
                           !.database_name = rn.database_name,
                           !.role_name = rn.role_name,
                           !.user_name = rn.user_name,
                           !.declined = dry_run]
        said == NamingLines(rn, user_password, dry_run)
    IN IF dry_run
       THEN /\ Enter(s, c)
            /\ EndEarly(s, "dry_run")
            /\ Say(s, said \o <<<<"Dry run: exiting without executing commands">>>>)
       ELSE /\ Enter(s, [c EXCEPT !.user_password = pw, !.recreate = force])
            /\ IF check_password_strength(pw) # "ok"
               THEN /\ EndEarly(s, "PasswordStrengthError")
                    /\ Say(s, said \o Echoed(cmd'[s], "PasswordStrengthError"))
               ELSE Connect(s, fault, "cr_list_databases") /\ Say(s, said)

\* ------------------------------- create_resources (project.py, core.py)

\* Where create goes once it knows which of the user and the role exist.
CreatePhase(user_exists, role_exists) ==
  IF ~user_exists THEN "cr_create_user"
  ELSE IF ~role_exists THEN "cr_create_role"
  ELSE "cr_restore"

\* A variant that switches to the project database without creating it.
CreateListDatabases_NoCreate(s) ==
  /\ pc[s] = "cr_list_databases"
  /\ \E fault \in Faults :
       LET how == Outcome(fault, FALSE)
           call == Ended(Call(s, "list_databases", ""), how)
           exists == cmd[s].database_name \in databases
       IN IF how # "no"
          THEN Finish(s, call, "MilvusException") /\ UNCHANGED loc
          ELSE /\ loc' = [loc EXCEPT ![s].database_exists = exists]
               /\ Goto(s, call, "cr_using_database")
  /\ UNCHANGED <<svc, ctx>>

\* database_exists = rn.database_name in client.list_databases()
CreateListDatabases(s) ==
  /\ pc[s] = "cr_list_databases"
  /\ \E fault \in Faults :
       LET how == Outcome(fault, FALSE)
           call == Ended(Call(s, "list_databases", ""), how)
           exists == cmd[s].database_name \in databases
       IN IF how # "no"
          THEN Finish(s, call, "MilvusException") /\ UNCHANGED loc
          ELSE /\ loc' = [loc EXCEPT ![s].database_exists = exists]
               /\ Goto(s, call,
                       IF cmd[s].recreate /\ exists THEN "cr_drop_database"
                       ELSE IF ~exists THEN "cr_create_database"
                       ELSE "cr_using_database")
  /\ UNCHANGED <<svc, ctx>>

\* core.py: if recreate_resources and database_exists: drop_database
CreateDropDatabase(s) ==
  /\ pc[s] = "cr_drop_database"
  /\ \E fault \in Faults :
       LET name == cmd[s].database_name
           how == Outcome(fault, name \notin databases \/ ctx[s] = name)
           call == Ended(Call(s, "drop_database", name), how)
       IN IF how # "no"
          THEN /\ Finish(s, call, "MilvusException")
               /\ UNCHANGED <<databases, collections, loc>>
          ELSE /\ databases' = databases \ {name}
               /\ collections' = [collections EXCEPT ![name] = {}]
               /\ loc' = [loc EXCEPT ![s].database_exists = FALSE]
               /\ Goto(s, call, "cr_create_database")
  /\ UNCHANGED <<users, roles, privs, userRoles, passwords, ctx>>

\* if not database_exists: client.create_database(rn.database_name)
CreateCreateDatabase(s) ==
  /\ pc[s] = "cr_create_database"
  /\ \E fault \in Faults :
       LET name == cmd[s].database_name
           how == Outcome(fault, name \in databases)
           call == Ended(Call(s, "create_database", name), how)
       IN IF how # "no"
          THEN /\ Finish(s, call, "MilvusException")
               /\ UNCHANGED <<databases, collections>>
          ELSE /\ databases' = databases \cup {name}
               /\ collections' = [collections EXCEPT ![name] = {}]
               /\ Goto(s, call, "cr_using_database")
  /\ UNCHANGED <<users, roles, privs, userRoles, passwords, ctx, loc>>

\* client.using_database(rn.database_name)
CreateUsingDatabase(s) ==
  /\ pc[s] = "cr_using_database"
  /\ ctx' = [ctx EXCEPT ![s] = cmd[s].database_name]
  /\ Goto(s, Call(s, "using_database", cmd[s].database_name), "cr_list_users")
  /\ UNCHANGED <<svc, loc>>

\* A variant that takes the user as absent whatever list_users answers.
CreateListUsers_Blind(s) ==
  /\ pc[s] = "cr_list_users"
  /\ \E fault \in Faults :
       LET how == Outcome(fault, FALSE)
           call == Ended(Call(s, "list_users", ""), how)
       IN IF how # "no"
          THEN Finish(s, call, "MilvusException") /\ UNCHANGED loc
          ELSE /\ loc' = [loc EXCEPT ![s].user_exists = FALSE]
               /\ Goto(s, call, "cr_list_roles")
  /\ UNCHANGED <<svc, ctx>>

\* user_exists = rn.user_name in client.list_users()
CreateListUsers(s) ==
  /\ pc[s] = "cr_list_users"
  /\ \E fault \in Faults :
       LET how == Outcome(fault, FALSE)
           call == Ended(Call(s, "list_users", ""), how)
       IN IF how # "no"
          THEN Finish(s, call, "MilvusException") /\ UNCHANGED loc
          ELSE /\ loc' = [loc EXCEPT ![s].user_exists = cmd[s].user_name \in users]
               /\ Goto(s, call, "cr_list_roles")
  /\ UNCHANGED <<svc, ctx>>

\* role_exists = rn.role_name in client.list_roles()
CreateListRoles(s) ==
  /\ pc[s] = "cr_list_roles"
  /\ \E fault \in Faults :
       LET how == Outcome(fault, FALSE)
           call == Ended(Call(s, "list_roles", ""), how)
           role_exists == cmd[s].role_name \in roles
       IN IF how # "no"
          THEN Finish(s, call, "MilvusException") /\ UNCHANGED loc
          ELSE /\ loc' = [loc EXCEPT ![s].role_exists = role_exists]
               /\ Goto(s, call,
                       IF cmd[s].recreate /\ loc[s].user_exists THEN "cr_drop_user"
                       ELSE IF cmd[s].recreate /\ role_exists THEN "cr_drop_role"
                       ELSE CreatePhase(loc[s].user_exists, role_exists))
  /\ UNCHANGED <<svc, ctx>>

\* core.py: if recreate_resources: if user_exists: drop_user
CreateDropUser(s) ==
  /\ pc[s] = "cr_drop_user"
  /\ \E fault \in Faults :
       LET name == cmd[s].user_name
           how == Outcome(fault, FALSE)
           call == Ended(Call(s, "drop_user", name), how)
       IN IF how # "no"
          THEN /\ Finish(s, call, "MilvusException")
               /\ UNCHANGED <<users, userRoles, passwords, loc>>
          ELSE /\ users' = users \ {name}
               /\ userRoles' = {b \in userRoles : b[1] # name}
               /\ passwords' = [passwords EXCEPT ![name] = <<>>]
               /\ loc' = [loc EXCEPT ![s].user_exists = FALSE]
               /\ Goto(s, call,
                       IF loc[s].role_exists THEN "cr_drop_role"
                       ELSE CreatePhase(FALSE, FALSE))
  /\ UNCHANGED <<databases, collections, roles, privs, ctx>>

\* core.py: if recreate_resources: if role_exists: drop_role
CreateDropRole(s) ==
  /\ pc[s] = "cr_drop_role"
  /\ \E fault \in Faults :
       LET name == cmd[s].role_name
           how == Outcome(fault, privs[name] # {})
           call == Ended(Call(s, "drop_role", name), how)
       IN IF how # "no"
          THEN /\ Finish(s, call, "MilvusException")
               /\ UNCHANGED <<roles, userRoles, loc>>
          ELSE /\ roles' = roles \ {name}
               /\ userRoles' = {b \in userRoles : b[2] # name}
               /\ loc' = [loc EXCEPT ![s].role_exists = FALSE]
               /\ Goto(s, call, CreatePhase(loc[s].user_exists, FALSE))
  /\ UNCHANGED <<databases, collections, users, privs, passwords, ctx>>

\* if not user_exists: client.create_user(user_name, password)
CreateCreateUser(s) ==
  /\ pc[s] = "cr_create_user"
  /\ \E fault \in Faults :
       LET name == cmd[s].user_name
           how == Outcome(fault, name \in users)
           call == [Call(s, "create_user", name) EXCEPT
                      !.password = cmd[s].user_password, !.raised = how]
       IN IF how # "no"
          THEN Finish(s, call, "MilvusException") /\ UNCHANGED <<users, passwords>>
          ELSE /\ users' = users \cup {name}
               /\ passwords' = [passwords EXCEPT ![name] = cmd[s].user_password]
               /\ Goto(s, call,
                       IF ~loc[s].role_exists THEN "cr_create_role" ELSE "cr_restore")
  /\ UNCHANGED <<databases, collections, roles, privs, userRoles, ctx, loc>>

\* A variant that takes back the user it created when create_role raises.
CreateCreateRole_Rollback(s) ==
  /\ pc[s] = "cr_create_role"
  /\ \E fault \in Faults :
       LET name == cmd[s].role_name
           how == Outcome(fault, name \in roles)
           call == Ended(Call(s, "create_role", name), how)
           made == {log[s][i].name : i \in {k \in DOMAIN log[s] :
                                              log[s][k].op = "create_user"}}
       IN IF how # "no"
          THEN /\ Finish(s, call, "MilvusException")
               /\ users' = users \ made
               /\ UNCHANGED <<roles, loc>>
          ELSE /\ roles' = roles \cup {name}
               /\ loc' = [loc EXCEPT ![s].i = 1]
               /\ Goto(s, call, "cr_grant_privilege")
               /\ UNCHANGED users
  /\ UNCHANGED <<databases, collections, privs, userRoles, passwords, ctx>>

\* if not role_exists: client.create_role(rn.role_name)
CreateCreateRole(s) ==
  /\ pc[s] = "cr_create_role"
  /\ \E fault \in Faults :
       LET name == cmd[s].role_name
           how == Outcome(fault, name \in roles)
           call == Ended(Call(s, "create_role", name), how)
       IN IF how # "no"
          THEN Finish(s, call, "MilvusException") /\ UNCHANGED <<roles, loc>>
          ELSE /\ roles' = roles \cup {name}
               /\ loc' = [loc EXCEPT ![s].i = 1]
               /\ Goto(s, call, "cr_grant_privilege")
  /\ UNCHANGED <<databases, collections, users, privs, userRoles, passwords, ctx>>

\* for privilege in collection_privileges: client.grant_privilege(...)
CreateGrantPrivilege(s) ==
  /\ pc[s] = "cr_grant_privilege"
  /\ \E fault \in Faults :
       LET name == cmd[s].role_name
           g == Grant(collection_privileges[loc[s].i])
           how == Outcome(fault, name \notin roles)
           call == [Call(s, "grant_privilege", name) EXCEPT
                      !.role = name, !.privilege = g.privilege,
                      !.object_type = g.object_type,
                      !.object_name = g.object_name, !.raised = how]
       IN IF how # "no"
          THEN Finish(s, call, "MilvusException") /\ UNCHANGED <<privs, loc>>
          ELSE /\ privs' = [privs EXCEPT ![name] = @ \cup {g}]
               /\ loc' = [loc EXCEPT ![s].i = @ + 1]
               /\ Goto(s, call,
                       IF loc[s].i < Len(collection_privileges)
                       THEN "cr_grant_privilege" ELSE "cr_grant_role")
  /\ UNCHANGED <<databases, collections, users, roles, userRoles, passwords, ctx>>

\* client.grant_role(rn.user_name, rn.role_name)
CreateGrantRole(s) ==
  /\ pc[s] = "cr_grant_role"
  /\ \E fault \in Faults :
       LET user == cmd[s].user_name
           role == cmd[s].role_name
           how == Outcome(fault, user \notin users \/ role \notin roles)
           call == [Call(s, "grant_role", user) EXCEPT !.role = role, !.raised = how]
       IN IF how # "no"
          THEN Finish(s, call, "MilvusException") /\ UNCHANGED userRoles
          ELSE /\ userRoles' = userRoles \cup {<<user, role>>}
               /\ Goto(s, call, "cr_restore")
  /\ UNCHANGED <<databases, collections, users, roles, privs, passwords, ctx, loc>>

\* client.using_database("default"), the last statement of create_resources
CreateRestore(s) ==
  /\ pc[s] = "cr_restore"
  /\ ctx' = [ctx EXCEPT ![s] = "default"]
  /\ Finish(s, Call(s, "using_database", "default"), "ok")
  /\ UNCHANGED <<svc, loc>>

create_resources(s) ==
  \/ CreateListDatabases(s)
  \/ CreateDropDatabase(s)
  \/ CreateCreateDatabase(s)
  \/ CreateUsingDatabase(s)
  \/ CreateListUsers(s)
  \/ CreateListRoles(s)
  \/ CreateDropUser(s)
  \/ CreateDropRole(s)
  \/ CreateCreateUser(s)
  \/ CreateCreateRole(s)
  \/ CreateGrantPrivilege(s)
  \/ CreateGrantRole(s)
  \/ CreateRestore(s)

\* --------------------------------------------------- project drop (cli.py)

\* A variant that goes on whatever the operator answers.
project_drop_Unconfirmed(s) ==
  /\ Idle(s)
  /\ \E project_name \in ProjectNames, database_name \in Options(OptDatabase),
     yes \in BOOLEAN, confirm \in BOOLEAN, fault \in Faults :
    LET c == [NoCmd EXCEPT !.variant = "helper", !.op = "drop",
                           !.project_name = project_name,
                           !.database_name =
                              OrElse(database_name, DefaultDatabase(project_name)),
                           !.role_name = DefaultRole(project_name),
                           !.user_name = DefaultUser(project_name),
                           !.declined = ~yes /\ ~confirm]
        said == <<<<"About to drop project", c.project_name, c.database_name>>>>
    IN /\ Enter(s, c)
       /\ Connect(s, fault, "dr_list_databases")
       /\ Say(s, said)

\* cli.py project_drop: confirmation, connection.  drop_resources resolves
\* the database name; it uses neither a role nor a user name.
project_drop(s) ==
  /\ Idle(s)
  /\ \E project_name \in ProjectNames, database_name \in Options(OptDatabase),
     yes \in BOOLEAN, confirm \in BOOLEAN, fault \in Faults :
    LET c == [NoCmd EXCEPT !.variant = "helper", !.op = "drop",
                           !.project_name = project_name,
                           !.database_name =
                              OrElse(database_name, DefaultDatabase(project_name)),
                           !.role_name = DefaultRole(project_name),
                           !.user_name = DefaultUser(project_name),
                           !.declined = ~yes /\ ~confirm]
        said == <<<<"About to drop project", c.project_name, c.database_name>>>>
    IN /\ Enter(s, c)
       /\ IF ~yes /\ ~confirm
          THEN /\ EndEarly(s, "cancelled")
               /\ Say(s, said \o <<<<"Operation cancelled.">>>>)
          ELSE Connect(s, fault, "dr_list_databases") /\ Say(s, said)

\* milvus_workflow/cli.py project_drop: --dry-run (default on), connection.
\* project_drop_resources resolves the three names.
workflow_project_drop(s) ==
  /\ Idle(s)
  /\ \E project_name \in ProjectNames, database_name \in Options(OptDatabase),
     role_name \in Options(OptRole), user_name \in Options(OptUser),
     dry_run \in BOOLEAN, fault \in Faults :
    LET c == [NoCmd EXCEPT !.variant = "workflow", !.op = "drop",
                           !.project_name = project_name,
                           !.database_name =
                              OrElse(database_name, DefaultDatabase(project_name)),
                           !.role_name = OrElse(role_name, DefaultRole(project_name)),
                           !.user_name = OrElse(user_name, DefaultUser(project_name)),
                           !.declined = dry_run]
        said == <<<<"Dropping project", c.project_name>>>>
    IN /\ Enter(s, c)
       /\ IF dry_run
          THEN /\ EndEarly(s, "dry_run")
               /\ Say(s, said \o <<<<"Dry run: would drop these resources:">>,
                                   <<"database", c.database_name>>,
                                   <<"role", c.role_name>>,
                                   <<"user", c.user_name>>>>)
          ELSE Connect(s, fault, "dr_list_databases") /\ Say(s, said)

\* --------------------------------- drop_resources (project.py, core.py)

\* project.py: for user_name in client.list_users(): if user_name != "root"
UsersToDrop(listed) == SelectSeq(listed, LAMBDA u : u # "root")

\* project.py: for role_name in client.list_roles():
\*               if role_name not in ["admin", "public"]
RolesToDrop(listed) == SelectSeq(listed, LAMBDA r : r \notin {"admin", "public"})

\* core.py: if user_exists: client.drop_user(user_name)
NamedUserToDrop(listed, user_name) ==
  IF user_name \in Range(listed) THEN <<user_name>> ELSE <<>>

\* core.py: if role_exists: revoke its privileges, client.drop_role(role_name)
NamedRoleToDrop(listed, role_name) ==
  IF role_name \in Range(listed) THEN <<role_name>> ELSE <<>>

\* Where drop goes when it has `todo` roles left to drop.
RolePhase(todo) == IF todo = <<>> THEN "dr_restore" ELSE "dr_describe_role"

\* A variant that goes on when the database does not exist.
DropListDatabases_NoReturn(s) ==
  /\ pc[s] = "dr_list_databases"
  /\ \E fault \in Faults :
       LET how == Outcome(fault, FALSE)
           call == Ended(Call(s, "list_databases", ""), how)
           exists == cmd[s].database_name \in databases
       IN IF how # "no"
          THEN Finish(s, call, "MilvusException") /\ UNCHANGED loc
          ELSE /\ loc' = [loc EXCEPT ![s].database_exists = exists]
               /\ Goto(s, call, "dr_using_database")
  /\ UNCHANGED <<svc, ctx>>

\* database_exists = database_name in client.list_databases();
\* if not database_exists: return
DropListDatabases(s) ==
  /\ pc[s] = "dr_list_databases"
  /\ \E fault \in Faults :
       LET how == Outcome(fault, FALSE)
           call == Ended(Call(s, "list_databases", ""), how)
           exists == cmd[s].database_name \in databases
       IN IF how # "no"
          THEN Finish(s, call, "MilvusException") /\ UNCHANGED loc
          ELSE /\ loc' = [loc EXCEPT ![s].database_exists = exists]
               /\ IF exists THEN Goto(s, call, "dr_using_database")
                  ELSE Finish(s, call, "ok")
  /\ UNCHANGED <<svc, ctx>>

\* client.using_database(database_name)
DropUsingDatabase(s) ==
  /\ pc[s] = "dr_using_database"
  /\ ctx' = [ctx EXCEPT ![s] = cmd[s].database_name]
  /\ Goto(s, Call(s, "using_database", cmd[s].database_name), "dr_list_users")
  /\ UNCHANGED <<svc, loc>>

\* client.list_users(): project.py loops over it, core.py looks the user up
DropListUsers(s) ==
  /\ pc[s] = "dr_list_users"
  /\ \E fault \in Faults :
       LET how == Outcome(fault, FALSE)
           call == Ended(Call(s, "list_users", ""), how)
           todo == IF cmd[s].variant = "helper" THEN UsersToDrop(list_users)
                   ELSE NamedUserToDrop(list_users, cmd[s].user_name)
       IN IF how # "no"
          THEN Finish(s, call, "MilvusException") /\ UNCHANGED loc
          ELSE /\ loc' = [loc EXCEPT ![s].users = todo,
                                     ![s].user_exists = cmd[s].user_name \in users]
               /\ Goto(s, call,
                       IF cmd[s].variant = "workflow" \/ todo = <<>>
                       THEN "dr_list_roles" ELSE "dr_drop_user")
  /\ UNCHANGED <<svc, ctx>>

\* client.drop_user(user_name)
DropDropUser(s) ==
  /\ pc[s] = "dr_drop_user"
  /\ \E fault \in Faults :
       LET name == Head(loc[s].users)
           how == Outcome(fault, FALSE)
           call == Ended(Call(s, "drop_user", name), how)
           left == Tail(loc[s].users)
       IN IF how # "no"
          THEN /\ Finish(s, call, "MilvusException")
               /\ UNCHANGED <<users, userRoles, passwords, loc>>
          ELSE /\ users' = users \ {name}
               /\ userRoles' = {b \in userRoles : b[1] # name}
               /\ passwords' = [passwords EXCEPT ![name] = <<>>]
               /\ loc' = [loc EXCEPT ![s].users = left]
               /\ Goto(s, call,
                       IF left # <<>> THEN "dr_drop_user"
                       ELSE IF cmd[s].variant = "helper" THEN "dr_list_roles"
                       ELSE RolePhase(loc[s].roles))
  /\ UNCHANGED <<databases, collections, roles, privs, ctx>>

\* client.list_roles(): project.py loops over it, core.py looks the role up
DropListRoles(s) ==
  /\ pc[s] = "dr_list_roles"
  /\ \E fault \in Faults :
       LET how == Outcome(fault, FALSE)
           call == Ended(Call(s, "list_roles", ""), how)
           todo == IF cmd[s].variant = "helper" THEN RolesToDrop(list_roles)
                   ELSE NamedRoleToDrop(list_roles, cmd[s].role_name)
       IN IF how # "no"
          THEN Finish(s, call, "MilvusException") /\ UNCHANGED loc
          ELSE /\ loc' = [loc EXCEPT ![s].roles = todo,
                                     ![s].role_exists = cmd[s].role_name \in roles]
               /\ Goto(s, call,
                       IF cmd[s].variant = "workflow" /\ loc[s].users # <<>>
                       THEN "dr_drop_user" ELSE RolePhase(todo))
  /\ UNCHANGED <<svc, ctx>>

\* A variant that drops the role without looking at its privileges.
DropDescribeRole_NoRevoke(s) ==
  /\ pc[s] = "dr_describe_role"
  /\ \E fault \in Faults :
       LET name == Head(loc[s].roles)
           how == Outcome(fault, name \notin roles)
           call == Ended(Call(s, "describe_role", name), how)
       IN IF how # "no"
          THEN Finish(s, call, "MilvusException") /\ UNCHANGED loc
          ELSE /\ loc' = [loc EXCEPT ![s].privileges = <<>>]
               /\ Goto(s, call, "dr_drop_role")
  /\ UNCHANGED <<svc, ctx>>

\* client.describe_role(role_name)["privileges"]
DropDescribeRole(s) ==
  /\ pc[s] = "dr_describe_role"
  /\ \E fault \in Faults :
       LET name == Head(loc[s].roles)
           how == Outcome(fault, name \notin roles)
           call == Ended(Call(s, "describe_role", name), how)
           privileges == describe_role(privs[name])
       IN IF how # "no"
          THEN Finish(s, call, "MilvusException") /\ UNCHANGED loc
          ELSE /\ loc' = [loc EXCEPT ![s].privileges = privileges]
               /\ Goto(s, call,
                       IF privileges # <<>> THEN "dr_revoke_privilege"
                       ELSE "dr_drop_role")
  /\ UNCHANGED <<svc, ctx>>

\* for priv in ...: client.revoke_privilege(**priv)
DropRevokePrivilege(s) ==
  /\ pc[s] = "dr_revoke_privilege"
  /\ \E fault \in Faults :
       LET name == Head(loc[s].roles)
           g == Head(loc[s].privileges)
           how == Outcome(fault, name \notin roles)
           call == [Call(s, "revoke_privilege", name) EXCEPT
                      !.role = name, !.privilege = g.privilege,
                      !.object_type = g.object_type,
                      !.object_name = g.object_name, !.raised = how]
           left == Tail(loc[s].privileges)
       IN IF how # "no"
          THEN Finish(s, call, "MilvusException") /\ UNCHANGED <<privs, loc>>
          ELSE /\ privs' = [privs EXCEPT ![name] = @ \ {g}]
               /\ loc' = [loc EXCEPT ![s].privileges = left]
               /\ Goto(s, call,
                       IF left # <<>> THEN "dr_revoke_privilege" ELSE "dr_drop_role")
  /\ UNCHANGED <<databases, collections, users, roles, userRoles, passwords, ctx>>

\* A variant that goes on to the next role when drop_role raises.
DropDropRole_Continue(s) ==
  /\ pc[s] = "dr_drop_role"
  /\ \E fault \in Faults :
       LET name == Head(loc[s].roles)
           how == Outcome(fault, privs[name] # {})
           call == Ended(Call(s, "drop_role", name), how)
           left == Tail(loc[s].roles)
       IN /\ roles' = IF how = "no" THEN roles \ {name} ELSE roles
          /\ userRoles' = IF how = "no" THEN {b \in userRoles : b[2] # name}
                          ELSE userRoles
          /\ loc' = [loc EXCEPT ![s].roles = left]
          /\ Goto(s, call, RolePhase(left))
  /\ UNCHANGED <<databases, collections, users, privs, passwords, ctx>>

\* client.drop_role(role_name)
DropDropRole(s) ==
  /\ pc[s] = "dr_drop_role"
  /\ \E fault \in Faults :
       LET name == Head(loc[s].roles)
           how == Outcome(fault, privs[name] # {})
           call == Ended(Call(s, "drop_role", name), how)
           left == Tail(loc[s].roles)
       IN IF how # "no"
          THEN /\ Finish(s, call, "MilvusException")
               /\ UNCHANGED <<roles, userRoles, loc>>
          ELSE /\ roles' = roles \ {name}
               /\ userRoles' = {b \in userRoles : b[2] # name}
               /\ loc' = [loc EXCEPT ![s].roles = left]
               /\ Goto(s, call, RolePhase(left))
  /\ UNCHANGED <<databases, collections, users, privs, passwords, ctx>>

\* client.using_database("default"), before the database is dropped
DropRestore(s) ==
  /\ pc[s] = "dr_restore"
  /\ ctx' = [ctx EXCEPT ![s] = "default"]
  /\ Goto(s, Call(s, "using_database", "default"), "dr_drop_database")
  /\ UNCHANGED <<svc, loc>>

\* A variant of the last step of drop that leaves the database in place.
DropDropDatabase_Skipped(s) ==
  /\ pc[s] = "dr_drop_database"
  /\ Finish(s, Call(s, "using_database", "default"), "ok")
  /\ UNCHANGED <<svc, ctx, loc>>

\* client.drop_database(database_name)
DropDropDatabase(s) ==
  /\ pc[s] = "dr_drop_database"
  /\ \E fault \in Faults :
       LET name == cmd[s].database_name
           how == Outcome(fault, name \notin databases \/ ctx[s] = name)
           call == Ended(Call(s, "drop_database", name), how)
       IN IF how # "no"
          THEN /\ Finish(s, call, "MilvusException")
               /\ UNCHANGED <<databases, collections>>
          ELSE /\ databases' = databases \ {name}
               /\ collections' = [collections EXCEPT ![name] = {}]
               /\ Finish(s, call, "ok")
  /\ UNCHANGED <<users, roles, privs, userRoles, passwords, ctx, loc>>

drop_resources(s) ==
  \/ DropListDatabases(s)
  \/ DropUsingDatabase(s)
  \/ DropListUsers(s)
  \/ DropDropUser(s)
  \/ DropListRoles(s)
  \/ DropDescribeRole(s)
  \/ DropRevokePrivilege(s)
  \/ DropDropRole(s)
  \/ DropRestore(s)
  \/ DropDropDatabase(s)

\* ---------------------------------------- project change-password (cli.py)

\* A variant of the command that does not check the new password.
project_change_password_Unchecked(s) ==
  /\ Idle(s)
  /\ \E project_name \in ProjectNames, user_name \in {"user_p", "root"},
     old_password \in OldPasswords, new_password \in NewPasswords,
     fault \in Faults :
    LET c == [NoCmd EXCEPT !.variant = "helper", !.op = "change-password",
                           !.project_name = project_name,
                           !.database_name = DefaultDatabase(project_name),
                           !.role_name = DefaultRole(project_name),
                           !.user_name = user_name,
                           !.old_password = old_password,
                           !.new_password = new_password]
    IN /\ Enter(s, c)
       /\ Connect(s, fault, "cp_list_databases")
       /\ Say(s, Echoed(c, IF fault THEN "MilvusException" ELSE "ok"))

\* cli.py project_change_password: connection, the two prompts, the check of
\* the new password.  Every exception ends the command with exit code 1.
project_change_password(s) ==
  /\ Idle(s)
  /\ \E project_name \in ProjectNames, user_name \in {"user_p", "root"},
     old_password \in OldPasswords, new_password \in NewPasswords,
     fault \in Faults :
    LET c == [NoCmd EXCEPT !.variant = "helper", !.op = "change-password",
                           !.project_name = project_name,
                           !.database_name = DefaultDatabase(project_name),
                           !.role_name = DefaultRole(project_name),
                           !.user_name = user_name,
                           !.old_password = old_password,
                           !.new_password = new_password]
    IN /\ Enter(s, c)
       /\ Connect(s, fault,
                  IF check_password_strength(new_password) # "ok"
                  THEN "cp_rejected" ELSE "cp_list_databases")
       /\ Say(s, Echoed(c, IF fault THEN "MilvusException" ELSE "ok"))

\* utils.check_password_strength(new_password) raised: typer.Exit(1)
ChangePasswordRejected(s) ==
  /\ pc[s] = "cp_rejected"
  /\ pc' = [pc EXCEPT ![s] = "done"]
  /\ result' = [result EXCEPT ![s] = "PasswordStrengthError"]
  /\ out' = [out EXCEPT ![s] = @ \o Echoed(cmd[s], "PasswordStrengthError")]
  /\ UNCHANGED <<svc, faults, ctx, loc, log>>
  /\ Frame

\* ---------------------------------------- change_user_password (project.py)

\* if database_name not in client.list_databases(): raise ValueError
ChangeListDatabases(s) ==
  /\ pc[s] = "cp_list_databases"
  /\ \E fault \in Faults :
       LET how == Outcome(fault, FALSE)
           call == Ended(Call(s, "list_databases", ""), how)
       IN IF how # "no" THEN Finish(s, call, "MilvusException")
          ELSE IF cmd[s].database_name \notin databases
          THEN Finish(s, call, "ValueError")
          ELSE Goto(s, call, "cp_using_database")
  /\ UNCHANGED <<svc, ctx, loc>>

\* try: client.using_database(database_name)
ChangeUsingDatabase(s) ==
  /\ pc[s] = "cp_using_database"
  /\ ctx' = [ctx EXCEPT ![s] = cmd[s].database_name]
  /\ Goto(s, Call(s, "using_database", cmd[s].database_name), "cp_list_users")
  /\ UNCHANGED <<svc, loc>>

\* A variant that does not look the user up in the list.
ChangeListUsers_NoCheck(s) ==
  /\ pc[s] = "cp_list_users"
  /\ \E fault \in Faults :
       LET how == Outcome(fault, FALSE)
           call == Ended(Call(s, "list_users", ""), how)
           raised == IF how # "no" THEN "MilvusException" ELSE ""
       IN /\ loc' = [loc EXCEPT ![s].pending = raised]
          /\ Goto(s, call, IF raised # "" THEN "cp_finally" ELSE "cp_update_password")
  /\ UNCHANGED <<svc, ctx>>

\* if user_name not in client.list_users(): raise ValueError
ChangeListUsers(s) ==
  /\ pc[s] = "cp_list_users"
  /\ \E fault \in Faults :
       LET how == Outcome(fault, FALSE)
           call == Ended(Call(s, "list_users", ""), how)
           raised == IF how # "no" THEN "MilvusException"
                     ELSE IF cmd[s].user_name \notin Range(list_users)
                     THEN "ValueError" ELSE ""
       IN /\ loc' = [loc EXCEPT ![s].pending = raised]
          /\ Goto(s, call, IF raised # "" THEN "cp_finally" ELSE "cp_update_password")
  /\ UNCHANGED <<svc, ctx>>

\* client.update_password(user_name, old_password, new_password)
ChangeUpdatePassword(s) ==
  /\ pc[s] = "cp_update_password"
  /\ \E fault \in Faults :
       LET name == cmd[s].user_name
           how == Outcome(fault, name \notin users
                                 \/ passwords[name] # cmd[s].old_password)
           call == [Call(s, "update_password", name) EXCEPT
                      !.password = cmd[s].new_password, !.raised = how]
       IN /\ passwords' = IF how = "no"
                          THEN [passwords EXCEPT ![name] = cmd[s].new_password]
                          ELSE passwords
          /\ loc' = [loc EXCEPT ![s].pending =
                       IF how = "no" THEN "" ELSE "MilvusException"]
          /\ Goto(s, call, "cp_finally")
  /\ UNCHANGED <<databases, collections, users, roles, privs, userRoles, ctx>>

\* A variant that restores the context at the end of the try block only.
ChangeFinally_OnSuccessOnly(s) ==
  /\ pc[s] = "cp_finally"
  /\ ctx' = [ctx EXCEPT ![s] = IF loc[s].pending = "" THEN "default" ELSE @]
  /\ Finish(s, Call(s, "using_database", "default"),
            IF loc[s].pending = "" THEN "ok" ELSE loc[s].pending)
  /\ UNCHANGED <<svc, loc>>

\* finally: client.using_database("default")
ChangeFinally(s) ==
  /\ pc[s] = "cp_finally"
  /\ ctx' = [ctx EXCEPT ![s] = "default"]
  /\ Finish(s, Call(s, "using_database", "default"),
            IF loc[s].pending = "" THEN "ok" ELSE loc[s].pending)
  /\ UNCHANGED <<svc, loc>>

change_user_password(s) ==
  \/ ChangeListDatabases(s)
  \/ ChangeUsingDatabase(s)
  \/ ChangeListUsers(s)
  \/ ChangeUpdatePassword(s)
  \/ ChangeFinally(s)

\* ------------------------------------------- project describe (cli.py)

\* What the operator may pass for the --user-name option of describe.
DescribeUser == {None, <<"user_p">>}

\* cli.py project_describe: connection; describe_resources resolves the
\* names of the database and of the role from the project name.
project_describe(s) ==
  /\ Idle(s)
  /\ \E project_name \in ProjectNames, user_name \in Options(DescribeUser),
     fault \in Faults :
    LET c == [NoCmd EXCEPT !.variant = "helper", !.op = "describe",
                           !.project_name = project_name,
                           !.database_name = DefaultDatabase(project_name),
                           !.role_name = DefaultRole(project_name),
                           !.user_name = OrElse(user_name, "")]
    IN /\ Enter(s, c)
       /\ Connect(s, fault, "de_list_databases")
       /\ Say(s, <<<<"Listing resources for project", project_name>>>>)

\* milvus_workflow/cli.py project_describe: the same.
workflow_project_describe(s) ==
  /\ Idle(s)
  /\ \E project_name \in ProjectNames, user_name \in Options(DescribeUser),
     fault \in Faults :
    LET c == [NoCmd EXCEPT !.variant = "workflow", !.op = "describe",
                           !.project_name = project_name,
                           !.database_name = DefaultDatabase(project_name),
                           !.role_name = DefaultRole(project_name),
                           !.user_name = OrElse(user_name, "")]
    IN /\ Enter(s, c)
       /\ Connect(s, fault, "de_list_databases")
       /\ Say(s, <<<<"Listing resources for project", project_name>>>>)

\* ----------------------------- describe_resources (project.py, core.py)

\* A variant that goes on when the database does not exist.
DescribeListDatabases_NoReturn(s) ==
  /\ pc[s] = "de_list_databases"
  /\ \E fault \in Faults :
       LET how == Outcome(fault, FALSE)
           call == Ended(Call(s, "list_databases", ""), how)
           exists == cmd[s].database_name \in databases
       IN IF how # "no"
          THEN Finish(s, call, "MilvusException") /\ UNCHANGED loc
          ELSE /\ loc' = [loc EXCEPT ![s].database_exists = exists]
               /\ Goto(s, call, "de_using_database")
  /\ UNCHANGED <<svc, ctx>>

\* database_exists = database_name in client.list_databases();
\* if not database_exists: return
DescribeListDatabases(s) ==
  /\ pc[s] = "de_list_databases"
  /\ \E fault \in Faults :
       LET how == Outcome(fault, FALSE)
           call == Ended(Call(s, "list_databases", ""), how)
           exists == cmd[s].database_name \in databases
       IN IF how # "no"
          THEN Finish(s, call, "MilvusException") /\ UNCHANGED loc
          ELSE /\ loc' = [loc EXCEPT ![s].database_exists = exists]
               /\ IF exists THEN Goto(s, call, "de_using_database")
                  ELSE Finish(s, call, "ok")
  /\ UNCHANGED <<svc, ctx>>

\* client.using_database(database_name)
DescribeUsingDatabase(s) ==
  /\ pc[s] = "de_using_database"
  /\ ctx' = [ctx EXCEPT ![s] = cmd[s].database_name]
  /\ Goto(s, Call(s, "using_database", cmd[s].database_name), "de_list_roles")
  /\ UNCHANGED <<svc, loc>>

\* role_exists = role_name in client.list_roles()
DescribeListRoles(s) ==
  /\ pc[s] = "de_list_roles"
  /\ \E fault \in Faults :
       LET how == Outcome(fault, FALSE)
           call == Ended(Call(s, "list_roles", ""), how)
       IN IF how # "no"
          THEN Finish(s, call, "MilvusException") /\ UNCHANGED loc
          ELSE /\ loc' = [loc EXCEPT ![s].role_exists = cmd[s].role_name \in roles]
               /\ Goto(s, call, "de_list_users")
  /\ UNCHANGED <<svc, ctx>>

\* users = client.list_users();
\* users_to_check = [user_name] if user_name else users
DescribeListUsers(s) ==
  /\ pc[s] = "de_list_users"
  /\ \E fault \in Faults :
       LET how == Outcome(fault, FALSE)
           call == Ended(Call(s, "list_users", ""), how)
           users_to_check == IF cmd[s].user_name # "" THEN <<cmd[s].user_name>>
                             ELSE list_users
       IN IF how # "no"
          THEN Finish(s, call, "MilvusException") /\ UNCHANGED loc
          ELSE /\ loc' = [loc EXCEPT ![s].users = users_to_check]
               /\ Goto(s, call, "de_list_collections")
  /\ UNCHANGED <<svc, ctx>>

\* collections = client.list_collections()
DescribeListCollections(s) ==
  /\ pc[s] = "de_list_collections"
  /\ \E fault \in Faults :
       LET how == Outcome(fault, FALSE)
           call == Ended(Call(s, "list_collections", ""), how)
       IN IF how # "no"
          THEN Finish(s, call, "MilvusException")
          ELSE Goto(s, call, IF loc[s].users = <<>> THEN "de_restore"
                             ELSE "de_user_list_roles")
  /\ UNCHANGED <<svc, ctx, loc>>

\* for user in users_to_check: for role in client.list_roles():
DescribeUserListRoles(s) ==
  /\ pc[s] = "de_user_list_roles"
  /\ \E fault \in Faults :
       LET how == Outcome(fault, FALSE)
           call == Ended(Call(s, "list_roles", ""), how)
           left == Tail(loc[s].users)
       IN IF how # "no"
          THEN Finish(s, call, "MilvusException") /\ UNCHANGED loc
          ELSE IF list_roles # <<>>
          THEN /\ loc' = [loc EXCEPT ![s].roles = list_roles]
               /\ Goto(s, call, "de_describe_role")
          ELSE /\ loc' = [loc EXCEPT ![s].users = left]
               /\ Goto(s, call, IF left = <<>> THEN "de_restore"
                                ELSE "de_user_list_roles")
  /\ UNCHANGED <<svc, ctx>>

\* A variant that revokes the privileges it reads, as drop does.
DescribeDescribeRole_Revoking(s) ==
  /\ pc[s] = "de_describe_role"
  /\ \E fault \in Faults :
       LET name == Head(loc[s].roles)
           how == Outcome(fault, name \notin roles)
           call == Ended(Call(s, "describe_role", name), how)
           roles_left == Tail(loc[s].roles)
           users_left == Tail(loc[s].users)
       IN IF how # "no"
          THEN Finish(s, call, "MilvusException") /\ UNCHANGED <<privs, loc>>
          ELSE /\ privs' = [privs EXCEPT ![name] = {}]
               /\ IF roles_left # <<>>
                  THEN /\ loc' = [loc EXCEPT ![s].roles = roles_left]
                       /\ Goto(s, call, "de_describe_role")
                  ELSE /\ loc' = [loc EXCEPT ![s].roles = <<>>,
                                             ![s].users = users_left]
                       /\ Goto(s, call, IF users_left = <<>> THEN "de_restore"
                                        ELSE "de_user_list_roles")
  /\ UNCHANGED <<databases, users, roles, userRoles, passwords, collections, ctx>>

\* privileges = client.describe_role(role_name=role)["privileges"]
DescribeDescribeRole(s) ==
  /\ pc[s] = "de_describe_role"
  /\ \E fault \in Faults :
       LET name == Head(loc[s].roles)
           how == Outcome(fault, name \notin roles)
           call == Ended(Call(s, "describe_role", name), how)
           roles_left == Tail(loc[s].roles)
           users_left == Tail(loc[s].users)
       IN IF how # "no"
          THEN Finish(s, call, "MilvusException") /\ UNCHANGED loc
          ELSE IF roles_left # <<>>
          THEN /\ loc' = [loc EXCEPT ![s].roles = roles_left]
               /\ Goto(s, call, "de_describe_role")
          ELSE /\ loc' = [loc EXCEPT ![s].roles = <<>>, ![s].users = users_left]
               /\ Goto(s, call, IF users_left = <<>> THEN "de_restore"
                                ELSE "de_user_list_roles")
  /\ UNCHANGED <<svc, ctx>>

\* client.using_database("default"), the last statement of describe_resources
DescribeRestore(s) ==
  /\ pc[s] = "de_restore"
  /\ ctx' = [ctx EXCEPT ![s] = "default"]
  /\ Finish(s, Call(s, "using_database", "default"), "ok")
  /\ UNCHANGED <<svc, loc>>

describe_resources(s) ==
  \/ DescribeListDatabases(s)
  \/ DescribeUsingDatabase(s)
  \/ DescribeListRoles(s)
  \/ DescribeListUsers(s)
  \/ DescribeListCollections(s)
  \/ DescribeUserListRoles(s)
  \/ DescribeDescribeRole(s)
  \/ DescribeRestore(s)

\* ---------------------------------------------- database list (cli.py)

\* cli.py database_list: connection, database.list_all(client).
database_list(s) ==
  /\ Idle(s)
  /\ \E fault \in Faults :
       /\ Enter(s, [NoCmd EXCEPT !.variant = "helper", !.op = "database-list"])
       /\ Connect(s, fault, "dl_list_databases")
       /\ Say(s, <<>>)

\* milvus_workflow/cli.py database_list: connection, database_list_all(client).
workflow_database_list(s) ==
  /\ Idle(s)
  /\ \E fault \in Faults :
       /\ Enter(s, [NoCmd EXCEPT !.variant = "workflow", !.op = "database-list"])
       /\ Connect(s, fault, "dl_list_databases")
       /\ Say(s, <<>>)

\* ------------------------------ list_all (database.py), database_list_all

\* databases = client.list_databases(); for db in databases:
ListAllListDatabases(s) ==
  /\ pc[s] = "dl_list_databases"
  /\ \E fault \in Faults :
       LET how == Outcome(fault, FALSE)
           call == Ended(Call(s, "list_databases", ""), how)
       IN IF how # "no"
          THEN Finish(s, call, "MilvusException") /\ UNCHANGED loc
          ELSE /\ loc' = [loc EXCEPT ![s].databases = list_databases]
               /\ IF list_databases = <<>> THEN Finish(s, call, "ok")
                  ELSE Goto(s, call, "dl_list_collections")
  /\ UNCHANGED <<svc, ctx>>

\* try: collections = client.list_collections()
\* except Exception: "Unable to list"
ListAllListCollections(s) ==
  /\ pc[s] = "dl_list_collections"
  /\ \E fault \in Faults :
       LET how == Outcome(fault, FALSE)
           call == Ended(Call(s, "list_collections", ""), how)
           left == Tail(loc[s].databases)
       IN /\ loc' = [loc EXCEPT ![s].databases = left]
          /\ IF left = <<>> THEN Finish(s, call, "ok")
             ELSE Goto(s, call, "dl_list_collections")
  /\ UNCHANGED <<svc, ctx>>

list_all(s) ==
  \/ ListAllListDatabases(s)
  \/ ListAllListCollections(s)

\* A variant where the handler of the policy violation raises typer.Exit()
\* without a code.
ExitCode_PolicyZero(res) ==
  IF res \in {"ok", "cancelled", "dry_run", "PasswordStrengthError"} THEN 0 ELSE 1

\* The exit code of the command that ended with `res`: 0 when it returned
\* or raised typer.Exit(), 1 when it raised typer.Exit(code=1) or let an
\* exception through.
ExitCode(res) == IF res \in {"ok", "cancelled", "dry_run"} THEN 0 ELSE 1

\* ------------------------------------------------------- specifications

\* The commands that change a project: create, drop, change-password.
Provision(s) ==
  \/ project_create(s)
  \/ workflow_project_create(s)
  \/ create_resources(s)
  \/ project_drop(s)
  \/ workflow_project_drop(s)
  \/ drop_resources(s)
  \/ project_change_password(s)
  \/ ChangePasswordRejected(s)
  \/ change_user_password(s)

\* The commands that report: describe, database list.
Report(s) ==
  \/ project_describe(s)
  \/ workflow_project_describe(s)
  \/ describe_resources(s)
  \/ database_list(s)
  \/ workflow_database_list(s)
  \/ list_all(s)

Next == \E s \in Sessions : Provision(s) \/ Report(s)

Spec == Init /\ [][Next]_vars

\* The naming of the command is the default naming of its project.
DefaultNaming(c) ==
  /\ c.database_name = DefaultDatabase(c.project_name)
  /\ c.role_name = DefaultRole(c.project_name)
  /\ c.user_name = DefaultUser(c.project_name)

\* The history of a session once one more command has ended: the last
\* commands were create(p), or create(p) then drop(p), each successful.
TripNext(s) ==
  IF cmd[s].op = "create" /\ DefaultNaming(cmd[s]) /\ result[s] = "ok" THEN 1
  ELSE IF trip[s] = 1 /\ cmd[s].op = "drop" /\ DefaultNaming(cmd[s])
          /\ result[s] = "ok" THEN 2
  ELSE 0

\* The command has ended and the operator turns to the next one.
NextCommand(s) ==
  /\ s \in live
  /\ pc[s] = "done"
  /\ restarts < MaxRestarts
  /\ restarts' = restarts + 1
  /\ trip' = [trip EXCEPT ![s] = TripNext(s)]
  /\ pc' = [pc EXCEPT ![s] = "idle"]
  /\ cmd' = [cmd EXCEPT ![s] = NoCmd]
  /\ loc' = [loc EXCEPT ![s] = NoLoc]
  /\ log' = [log EXCEPT ![s] = <<>>]
  /\ result' = [result EXCEPT ![s] = "none"]
  /\ pre' = [pre EXCEPT ![s] = NoSnapshot]
  /\ ctx' = [ctx EXCEPT ![s] = "default"]
  /\ out' = [out EXCEPT ![s] = <<>>]
  /\ prev' = [prev EXCEPT ![s] =
                IF cmd[s].op = "describe"
                THEN [cmd |-> cmd[s], out |-> out[s], result |-> result[s]]
                ELSE NoPrev]
  /\ UNCHANGED <<svc, faults, live, overrides, password, verdict, naming>>

InitTrip ==
  /\ ServiceInit
  /\ SessionInit
  /\ live = {1}
  /\ overrides = FALSE
  /\ password = <<>>
  /\ verdict = "unchecked"
  /\ naming = NoNaming

NextTrip == \E s \in Sessions : Provision(s) \/ NextCommand(s)

SpecTrip == InitTrip /\ [][NextTrip]_vars

\* Two operators, each running one create for the same project against the
\* same service; the calls of the two clients interleave in any order.  The
\* service holds the project p in part or in full, and no other project.
InitRace ==
  /\ ServiceInit
  /\ "user_q" \notin users /\ "role_q" \notin roles
  /\ collections["db_p"] = {}
  /\ SessionInit
  /\ live = Sessions
  /\ overrides = FALSE
  /\ password = <<>>
  /\ verdict = "unchecked"
  /\ naming = NoNaming

NextRace ==
  \E s \in Sessions :
    \/ project_create(s)
    \/ workflow_project_create(s)
    \/ create_resources(s)

SpecRace == InitRace /\ [][NextRace]_vars

\* An operator running successive reporting commands on one project.
NextAgain == \E s \in Sessions : Report(s) \/ NextCommand(s)

SpecAgain == Init /\ [][NextAgain]_vars

\* The passwords SpecPw checks: up to MaxFree characters, then one character
\* repeated up to MaxPad times.
RECURSIVE Repeat(_, _)
Repeat(c, n) == IF n = 0 THEN <<>> ELSE <<c>> \o Repeat(c, n - 1)

FreeParts == UNION {[1..n -> PwAlphabet] : n \in 0..MaxFree}

PwInputs == {f \o Repeat(c, n) : f \in FreeParts, c \in PwAlphabet, n \in 0..MaxPad}

\* check_password_strength(password), called on its own.
CheckPassword ==
  /\ verdict = "unchecked"
  /\ verdict' = check_password_strength(password)
  /\ UNCHANGED <<svc, faults, live, overrides, pc, cmd, ctx, loc, log, result,
                 pre, trip, restarts, password, out, prev, naming>>

InitPw ==
  /\ ServiceInit
  /\ databases = {"default"} /\ users = {"root"} /\ roles = {"admin", "public"}
  /\ SessionInit
  /\ live = {}
  /\ overrides = FALSE
  /\ password \in PwInputs
  /\ verdict = "unchecked"
  /\ naming = NoNaming

SpecPw == InitPw /\ [][CheckPassword]_vars

\* The arguments SpecNaming resolves: project names, and for each resource
\* no option, an empty one, the name of a built-in resource, another name.
NamingProjects == {"p", "acme", "new-project"}
NamingDatabases == {None, <<"">>, <<"default">>, <<"db_x">>}
NamingRoles == {None, <<"">>, <<"admin">>, <<"role_x">>}
NamingUsers == {None, <<"">>, <<"root">>, <<"user_x">>}

\* project.ResourceNaming(project_name=..., database_name=database_name or
\* f"db_{project_name}", ...), called on its own.
ResolveNaming ==
  /\ ~naming.resolved
  /\ naming' = [naming EXCEPT
                  !.resolved = TRUE,
                  !.names = ResourceNaming(naming.project_name,
                                           naming.database_name,
                                           naming.role_name, naming.user_name)]
  /\ UNCHANGED <<svc, faults, live, overrides, pc, cmd, ctx, loc, log, result,
                 pre, trip, restarts, password, verdict, out, prev>>

InitNaming ==
  /\ ServiceInit
  /\ databases = {"default"} /\ users = {"root"} /\ roles = {"admin", "public"}
  /\ SessionInit
  /\ live = {}
  /\ overrides = TRUE
  /\ password = <<>>
  /\ verdict = "unchecked"
  /\ naming \in {[NoNaming EXCEPT !.project_name = p, !.database_name = d,
                                  !.role_name = r, !.user_name = u] :
                   p \in NamingProjects, d \in NamingDatabases,
                   r \in NamingRoles, u \in NamingUsers}

SpecNaming == InitNaming /\ [][ResolveNaming]_vars

\* ----------------------------------------------------------------- claims

\* The calls that change the state of the service.
Mutating ==
  {"create_database", "drop_database", "create_user", "drop_user", "create_role",
   "drop_role", "grant_privilege", "revoke_privilege", "grant_role",
   "update_password"}

\* The positions of the log of s that hold a call of one of `ops`.
Issued(s, ops) == {i \in DOMAIN log[s] : log[s][i].op \in ops}

\* No call of the command of s was ended by a transport fault.
NoFault(s) == \A i \in DOMAIN log[s] : log[s][i].raised # "fault"

\* The command of s went as far as calling its reconciler.
Reconciled(s) == Issued(s, {"list_databases"}) # {}

\* C1: after any reconciler call (create, drop, rotate-password), whether it
\* returned or failed because a service call raised, the active database of
\* the session is the default one.
C1_ContextRestored ==
  \A s \in Sessions :
    pc[s] = "done" /\ Reconciled(s) => ctx[s] = "default"

\* C2: create without recreate on a project whose database, user and role
\* all exist fails with ResourceExistsError and issues no create_user and no
\* create_role call.
C2_ResourceExists ==
  \A s \in Sessions :
    ( /\ pc[s] = "done" /\ cmd[s].op = "create" /\ ~cmd[s].recreate
      /\ Reconciled(s) /\ NoFault(s)
      /\ cmd[s].database_name \in pre[s].databases
      /\ cmd[s].user_name \in pre[s].users
      /\ cmd[s].role_name \in pre[s].roles )
    => /\ result[s] = "ResourceExistsError"
       /\ Issued(s, {"create_user", "create_role"}) = {}

\* C3: whatever the service holds and whatever names are passed, drop issues
\* no drop_user for root and no drop_role for admin or public.
C3_ProtectedNames ==
  \A s \in Sessions :
    cmd[s].op = "drop" =>
      \A i \in DOMAIN log[s] :
        /\ ~(log[s][i].op = "drop_user" /\ log[s][i].name = "root")
        /\ ~(log[s][i].op = "drop_role" /\ log[s][i].name \in {"admin", "public"})

\* The command of s is create or drop of its project under the default
\* naming, and it has ended after reaching the service.
EndedPlain(s, op) ==
  /\ pc[s] = "done"
  /\ cmd[s].op = op
  /\ DefaultNaming(cmd[s])
  /\ Reconciled(s)

\* C4: after create(p) succeeded, a drop(p) that succeeds leaves db_<p>
\* absent; the create(p) that follows them does not end with
\* ResourceExistsError, and it succeeds unless the transport fails.
C4_RoundTrip ==
  \A s \in Sessions :
    /\ (trip[s] = 1 /\ EndedPlain(s, "drop") /\ result[s] = "ok")
         => DefaultDatabase(cmd[s].project_name) \notin databases
    /\ (trip[s] = 2 /\ EndedPlain(s, "create"))
         => /\ result[s] # "ResourceExistsError"
            /\ NoFault(s) => result[s] = "ok"

\* The round trip happened: create(p), drop(p), create(p), all successful.
C4_Witness ==
  \E s \in Sessions :
    /\ trip[s] = 2 /\ EndedPlain(s, "create") /\ result[s] = "ok"
    /\ DefaultDatabase(cmd[s].project_name) \in databases
    /\ Issued(s, {"create_database"}) # {}

\* The rules of the password policy, numbered as the specification does.
RuleMessages == <<MIN_LENGTH, UPPERCASE, LOWERCASE, DIGIT, SPECIAL>>

Violated(pw, rule) ==
  CASE rule = 1 -> Len(pw) < 8
    [] rule = 2 -> \A i \in DOMAIN pw : pw[i] \notin UpperChars
    [] rule = 3 -> \A i \in DOMAIN pw : pw[i] \notin LowerChars
    [] rule = 4 -> \A i \in DOMAIN pw : pw[i] \notin DigitChars
    [] rule = 5 -> \A i \in DOMAIN pw :
                     pw[i] \notin {"!","@","#","$","%","^","&","*","(",")","-","+"}

Violations(pw) == {rule \in 1..5 : Violated(pw, rule)}

\* C5: the check reports exactly the first violated rule in the order
\* length, uppercase, lowercase, digit, special character.
C5_FirstViolation ==
  (verdict # "unchecked" /\ Violations(password) # {}) =>
    \E first \in Violations(password) :
      /\ \A rule \in Violations(password) : first <= rule
      /\ verdict = RuleMessages[first]

\* A password that violates rules 1 and 3, not 2, was reported as too short.
C5_Witness ==
  /\ verdict = MIN_LENGTH
  /\ {1, 3} \subseteq Violations(password)
  /\ 2 \notin Violations(password)

\* C6: the check accepts a password exactly when it has at least 8
\* characters, an uppercase letter, a lowercase letter, a digit and one of
\* the special characters.
C6_AcceptsIff ==
  verdict # "unchecked" => (verdict = "ok" <=> Violations(password) = {})

\* A password of exactly 8 characters was accepted.
C6_Witness == verdict = "ok" /\ Len(password) = 8

\* C7: once password rotation has switched into the project database, it
\* ends with the default database active: when the user check fails, when
\* update_password raises, and on success.
C7_RotateRestores ==
  \A s \in Sessions :
    ( /\ cmd[s].op = "change-password"
      /\ pc[s] = "done"
      /\ \E i \in DOMAIN log[s] : /\ log[s][i].op = "using_database"
                                  /\ log[s][i].name = cmd[s].database_name )
    => ctx[s] = "default"

\* update_password raised and the rotation ended in the default database.
C7_Witness ==
  \E s \in Sessions :
    /\ cmd[s].op = "change-password" /\ pc[s] = "done"
    /\ \E i \in DOMAIN log[s] : /\ log[s][i].op = "update_password"
                                /\ log[s][i].raised # "no"
    /\ ctx[s] = "default"

\* The password the command submits to the policy.
Candidate(c) == IF c.op = "create" THEN c.user_password ELSE c.new_password

\* C8: when the password of a create or change-password command fails the
\* policy, the command issues no call that changes the state of the service.
C8_RejectedBeforeMutation ==
  \A s \in Sessions :
    ( /\ cmd[s].op \in {"create", "change-password"}
      /\ check_password_strength(Candidate(cmd[s])) # "ok" )
    => Issued(s, Mutating) = {}

\* A change-password command ended on a weak new password, connected.
C8_Witness ==
  \E s \in Sessions :
    /\ cmd[s].op = "change-password" /\ pc[s] = "done"
    /\ result[s] = "PasswordStrengthError"
    /\ cmd[s].user_name \in users
    /\ cmd[s].database_name \in databases

\* C9: rotation fails with the not-found error (ValueError) and never calls
\* update_password when the project database does not exist, and then it
\* never switches context, or when the user is not among the listed users.
C9_RotateNotFound ==
  \A s \in Sessions :
    cmd[s].op = "change-password" =>
      LET no_database == cmd[s].database_name \notin pre[s].databases
          no_user == cmd[s].user_name \notin pre[s].users
          answered(op) == \E i \in DOMAIN log[s] : /\ log[s][i].op = op
                                                   /\ log[s][i].raised = "no"
      IN /\ (no_database \/ no_user) => Issued(s, {"update_password"}) = {}
         /\ no_database => /\ Issued(s, {"using_database"}) = {}
                           /\ ctx[s] = "default"
         /\ (pc[s] = "done" /\ no_database /\ answered("list_databases"))
              => result[s] = "ValueError"
         /\ (pc[s] = "done" /\ no_user /\ answered("list_users"))
              => result[s] = "ValueError"

\* A rotation for a user the project database does not list ended not-found.
C9_Witness ==
  \E s \in Sessions :
    /\ cmd[s].op = "change-password" /\ pc[s] = "done"
    /\ cmd[s].database_name \in pre[s].databases
    /\ cmd[s].user_name \notin pre[s].users
    /\ Issued(s, {"list_users"}) # {}
    /\ result[s] = "ValueError"

\* The grant_privilege calls of s, as <<role, privilege, type, name>>.
GrantsIssued(s) ==
  {<<log[s][i].role, log[s][i].privilege, log[s][i].object_type,
     log[s][i].object_name>> : i \in Issued(s, {"grant_privilege"})}

\* C10: create grants privileges only when it creates the role: then it
\* grants exactly the seven privileges, each on Collection and *, and
\* afterwards grants the role to the user; when the role existed and is not
\* recreated it issues no grant_privilege and no grant_role call.
C10_GrantsOnlyWithNewRole ==
  \A s \in Sessions :
    cmd[s].op = "create" =>
      LET created == \E i \in DOMAIN log[s] : /\ log[s][i].op = "create_role"
                                              /\ log[s][i].raised = "no"
      IN /\ ~created => Issued(s, {"grant_privilege", "grant_role"}) = {}
         /\ (cmd[s].role_name \in pre[s].roles /\ ~cmd[s].recreate)
              => Issued(s, {"create_role", "grant_privilege", "grant_role"}) = {}
         /\ (pc[s] = "done" /\ result[s] = "ok" /\ created)
              => /\ GrantsIssued(s) =
                      {<<cmd[s].role_name, p, "Collection", "*">> :
                         p \in {"CreateIndex", "Load", "Insert", "Delete",
                                "Search", "Query", "Flush"}}
                 /\ Cardinality(Issued(s, {"grant_privilege"})) = 7
                 /\ \E j \in Issued(s, {"grant_role"}) :
                      /\ log[s][j].name = cmd[s].user_name
                      /\ log[s][j].role = cmd[s].role_name
                      /\ \A i \in Issued(s, {"grant_privilege"}) : i < j
                      /\ Issued(s, {"grant_role"}) = {j}

\* create made the role, granted it the privileges and bound it to the user.
C10_Witness ==
  \E s \in Sessions :
    /\ cmd[s].op = "create" /\ pc[s] = "done" /\ result[s] = "ok"
    /\ Issued(s, {"create_role"}) # {}
    /\ privs[cmd[s].role_name] = AllGrants
    /\ <<cmd[s].user_name, cmd[s].role_name>> \in userRoles

\* C11: when the project database exists, a drop that succeeds has removed
\* every listed user other than root, every listed role other than admin
\* and public, and the database.
C11_DropRemovesAll ==
  \A s \in Sessions :
    ( /\ cmd[s].op = "drop" /\ pc[s] = "done" /\ result[s] = "ok"
      /\ cmd[s].database_name \in pre[s].databases )
    => /\ cmd[s].database_name \notin databases
       /\ (pre[s].users \cap users) \subseteq {"root"}
       /\ (pre[s].roles \cap roles) \subseteq {"admin", "public"}

\* The command of s is a describe that returned.
Described(s) == cmd[s].op = "describe" /\ pc[s] = "done" /\ result[s] = "ok"

\* The describe before the command of s returned and had the same arguments.
DescribedBefore(s) ==
  /\ prev[s].cmd.op = "describe" /\ prev[s].result = "ok"
  /\ prev[s].cmd.project_name = cmd[s].project_name
  /\ prev[s].cmd.user_name = cmd[s].user_name

\* C12: describe issues no call that changes the service, leaves its
\* databases, users, roles and privileges as they were, and two describe
\* calls in a row report the same lines.
C12_DescribeReadOnly ==
  \A s \in Sessions :
    cmd[s].op = "describe" =>
      /\ Issued(s, Mutating) = {}
      /\ Snapshot = pre[s]
      /\ (Described(s) /\ DescribedBefore(s)) => out[s] = prev[s].out

\* A second describe reported the privileges of a role, as the first did.
C12_Witness ==
  \E s \in Sessions :
    /\ Described(s) /\ DescribedBefore(s)
    /\ out[s] = prev[s].out
    /\ \E i \in DOMAIN out[s] : out[s][i][1] = "privilege"
    /\ Issued(s, {"describe_role"}) # {}

\* The command of s has logged the line `line`.
Said(s, line) == \E i \in DOMAIN out[s] : out[s][i] = line

\* list_databases has answered the command of s.
Listed(s) ==
  \E i \in DOMAIN log[s] : log[s][i].op = "list_databases" /\ log[s][i].raised = "no"

\* C13: drop for a project whose database does not exist reports that
\* there is nothing to drop and returns: it does not switch the database
\* context and issues no drop_user, drop_role, revoke_privilege or
\* drop_database call.
C13_NothingToDrop ==
  \A s \in Sessions :
    (cmd[s].op = "drop" /\ cmd[s].database_name \notin pre[s].databases) =>
      /\ Issued(s, {"using_database", "drop_user", "drop_role",
                    "revoke_privilege", "drop_database"}) = {}
      /\ ctx[s] = "default"
      /\ Listed(s) => /\ pc[s] = "done" /\ result[s] = "ok"
                      /\ Said(s, <<"No resources to drop">>)
                      /\ Snapshot = pre[s]

\* A drop found no database and said so, while a user and a role of the
\* project were there.
C13_Witness ==
  \E s \in Sessions :
    /\ cmd[s].op = "drop" /\ pc[s] = "done" /\ result[s] = "ok"
    /\ cmd[s].database_name \notin pre[s].databases
    /\ Said(s, <<"No resources to drop">>)
    /\ {"user_p"} \subseteq users /\ {"role_p"} \subseteq roles

\* The name resolved for a resource that has `given` as its option and
\* `dflt` as its default is the option when one was given.
Overridden(name, given, dflt) == name = IF given = None THEN dflt ELSE given[1]

\* The same, where an empty option counts as no option.
OverriddenUnlessEmpty(name, given, dflt) ==
  name = IF given \in {None, <<"">>} THEN dflt ELSE given[1]

\* C14 as stated: each resolved name is db_<p>, role_<p>, user_<p> when no
\* override is given for it, and the override when one is given, whatever
\* the other overrides are.
C14_NamingAsStated ==
  naming.resolved =>
    /\ Overridden(naming.names.database_name, naming.database_name,
                  "db_" \o naming.project_name)
    /\ Overridden(naming.names.role_name, naming.role_name,
                  "role_" \o naming.project_name)
    /\ Overridden(naming.names.user_name, naming.user_name,
                  "user_" \o naming.project_name)

\* C14, amended: each resolved name is db_<p>, role_<p>, user_<p> when no
\* override or an empty one is given for it, and the override when a
\* non-empty one is given, whatever the other overrides are.
C14_NamingDefaults ==
  naming.resolved =>
    /\ naming.names.project_name = naming.project_name
    /\ OverriddenUnlessEmpty(naming.names.database_name, naming.database_name,
                             "db_" \o naming.project_name)
    /\ OverriddenUnlessEmpty(naming.names.role_name, naming.role_name,
                             "role_" \o naming.project_name)
    /\ OverriddenUnlessEmpty(naming.names.user_name, naming.user_name,
                             "user_" \o naming.project_name)

\* acme with the user name overridden and nothing else.
C14_Witness ==
  /\ naming.resolved
  /\ naming.project_name = "acme"
  /\ naming.database_name = None /\ naming.role_name = None
  /\ naming.user_name = <<"root">>
  /\ naming.names = [project_name |-> "acme", database_name |-> "db_acme",
                     role_name |-> "role_acme", user_name |-> "root"]

\* C15: a create or drop command whose confirmation is not bypassed and is
\* declined, or that runs under --dry-run in the workflow variant, makes no
\* call on the service, leaves it unchanged and ends with exit code 0.
C15_DeclinedDoesNothing ==
  \A s \in Sessions :
    (cmd[s].op \in {"create", "drop"} /\ cmd[s].declined) =>
      /\ log[s] = <<>>
      /\ pc[s] = "done"
      /\ Snapshot = pre[s]
      /\ ExitCode(result[s]) = 0

\* A drop of a project that is there was declined.
C15_Witness ==
  \E s \in Sessions :
    /\ cmd[s].op = "drop" /\ cmd[s].variant = "helper" /\ cmd[s].declined
    /\ pc[s] = "done" /\ result[s] = "cancelled"
    /\ cmd[s].database_name \in databases
    /\ Said(s, <<"Operation cancelled.">>)

\* The command of s caught a failure and echoed its message.
Handled(s) == \E i \in DOMAIN out[s] : out[s][i][1] = "error"

\* The command of s ended on an exception it did not catch.
Unhandled(s) ==
  result[s] \in {"MilvusException", "ValueError"} /\ ~Handled(s)

\* C16: a command that ends on a failure it handles (a policy violation, a
\* resource-exists conflict, any exception in change-password) ends with
\* exit code 1; a command that ends otherwise, and not on an exception it
\* lets through, ends with exit code 0.
C16_ExitCodes ==
  \A s \in Sessions :
    pc[s] = "done" =>
      /\ Handled(s) => ExitCode(result[s]) = 1
      /\ result[s] \in {"PasswordStrengthError", "ResourceExistsError"}
           => Handled(s)
      /\ (~Handled(s) /\ ~Unhandled(s)) => ExitCode(result[s]) = 0

\* create ended on a password the policy rejects.
C16_Witness ==
  \E s \in Sessions :
    /\ pc[s] = "done" /\ cmd[s].op = "create"
    /\ result[s] = "PasswordStrengthError"
    /\ Handled(s)
    /\ ExitCode(result[s]) = 1

\* The line `line` shows the text `text`.
Shows(line, text) == \E k \in DOMAIN line : line[k] = text

\* C17: no line that the create command or the reconciler writes shows the
\* password of the user, and the only call that is passed it is create_user.
C17_PasswordWriteOnly ==
  \A s \in Sessions :
    (cmd[s].op = "create" /\ cmd[s].user_password # <<>>) =>
      /\ \A i \in DOMAIN out[s] : ~Shows(out[s][i], Text(cmd[s].user_password))
      /\ \A i \in DOMAIN log[s] :
           log[s][i].password # <<>> =>
             /\ log[s][i].op = "create_user"
             /\ log[s][i].name = cmd[s].user_name

\* create made the user with the password, and logged that it did.
C17_Witness ==
  \E s \in Sessions :
    /\ cmd[s].op = "create" /\ pc[s] = "done" /\ result[s] = "ok"
    /\ \E i \in DOMAIN log[s] : /\ log[s][i].op = "create_user"
                                /\ log[s][i].password = cmd[s].user_password
                                /\ log[s][i].raised = "no"
    /\ passwords[cmd[s].user_name] = cmd[s].user_password
    /\ Said(s, <<"Created user">>)
    /\ Said(s, <<"user_password", "(not yet set)">>)

\* C18: database list reports, for every database that list_databases
\* returns, the collections of that database.
C18_ListsOwnCollections ==
  \A s \in Sessions :
    cmd[s].op = "database-list" =>
      \A i \in DOMAIN out[s] :
        ( /\ out[s][i][1] = "Database"
          /\ i + 1 \in DOMAIN out[s]
          /\ out[s][i + 1][1] = "Collections" )
        => out[s][i + 1] =
             <<"Collections">>
             \o SelectSeq(CollectionOrder,
                          LAMBDA c : c \in collections[out[s][i][2]])

\* The grants that the revoke_privilege calls of s before position i took
\* from the role that the call at i names.
RevokedBefore(s, i) ==
  {[privilege |-> log[s][j].privilege, object_type |-> log[s][j].object_type,
    object_name |-> log[s][j].object_name] :
     j \in {k \in Issued(s, {"revoke_privilege"}) :
              /\ k < i
              /\ log[s][k].role = log[s][i].name
              /\ log[s][k].raised = "no"}}

\* Every drop_role call of s comes after a revoke_privilege call for each
\* grant the role held, and the service never refuses it for a grant left.
RevokesFirst(s) ==
  \A i \in Issued(s, {"drop_role"}) :
    /\ pre[s].privs[log[s][i].name] \subseteq RevokedBefore(s, i)
    /\ log[s][i].raised # "refused"

\* C19: create with recreate allowed, when the project role exists, revokes
\* every privilege of that role before it issues drop_role for it.
C19_RecreateRevokesFirst ==
  \A s \in Sessions :
    (cmd[s].op = "create" /\ cmd[s].recreate) => RevokesFirst(s)

\* C20: drop issues, for every role it drops, describe_role and then
\* revoke_privilege for each privilege that describe_role returned, before
\* drop_role: no role is dropped while it still holds a grant.
C20_DropRevokesFirst ==
  \A s \in Sessions :
    cmd[s].op = "drop" =>
      /\ RevokesFirst(s)
      /\ \A i \in Issued(s, {"drop_role"}) :
           \E d \in Issued(s, {"describe_role"}) :
             /\ d < i
             /\ log[s][d].name = log[s][i].name
             /\ \A k \in Issued(s, {"revoke_privilege"}) :
                  (k < i /\ log[s][k].role = log[s][i].name) => d < k

\* drop removed a role that held grants when the command began.
C20_Witness ==
  \E s \in Sessions :
    /\ cmd[s].op = "drop" /\ pc[s] = "done" /\ result[s] = "ok"
    /\ \E i \in Issued(s, {"drop_role"}) :
         /\ log[s][i].raised = "no"
         /\ pre[s].privs[log[s][i].name] # {}
         /\ log[s][i].name \notin roles

\* The call of s at position i is using_database("default").
SwitchBack(s, i) ==
  /\ i \in DOMAIN log[s]
  /\ log[s][i].op = "using_database" /\ log[s][i].name = "default"

\* In drop, the switch back to the default context is the call right before
\* drop_database, and every user and role drop comes before the switch.
DropOrder(s) ==
  \A i \in Issued(s, {"drop_database"}) :
    /\ SwitchBack(s, i - 1)
    /\ \A k \in Issued(s, {"drop_user", "drop_role", "revoke_privilege"}) :
         k < i - 1

\* C21: whenever drop_database is issued, by drop or by create with
\* recreate, the active database of the session is not the database being
\* dropped; in drop the switch back to the default context precedes
\* drop_database, and all user and role drops precede both.
C21_DropFromOutside ==
  \A s \in Sessions :
    /\ \A i \in Issued(s, {"drop_database"}) : log[s][i].ctx # log[s][i].name
    /\ cmd[s].op = "drop" => DropOrder(s)

\* C22: create checks the user and the role only once the project database
\* exists and is the active context of the session; list_databases and any
\* create_database call come before list_users and list_roles.
C22_DatabaseFirst ==
  \A s \in Sessions :
    cmd[s].op = "create" =>
      /\ pc[s] \in {"cr_list_users", "cr_list_roles"} =>
           /\ cmd[s].database_name \in databases
           /\ ctx[s] = cmd[s].database_name
      /\ \A i \in Issued(s, {"list_users", "list_roles"}) :
           /\ log[s][i].ctx = cmd[s].database_name
           /\ \E d \in Issued(s, {"list_databases"}) : d < i
           /\ \A d \in Issued(s, {"list_databases", "create_database"}) : d < i

\* create made the database, switched to it and then checked user and role.
C22_Witness ==
  \E s \in Sessions :
    /\ cmd[s].op = "create"
    /\ cmd[s].database_name \notin pre[s].databases
    /\ \E d \in Issued(s, {"create_database"}), i \in Issued(s, {"list_roles"}) :
         /\ d < i
         /\ log[s][d].raised = "no" /\ log[s][i].raised = "no"
         /\ log[s][i].ctx = "db_p"

\* The positions of the calls of `op` of s that returned.
Made(s, op) == {i \in Issued(s, {op}) : log[s][i].raised = "no"}

\* No call of `op` on `name` was issued by s after position i.
NoLater(s, i, op, name) ==
  \A j \in Issued(s, {op}) : j > i => log[s][j].name # name

\* C23: create does not roll back: when a step of create fails, the database,
\* the user, the role and the grants that this create made are still in the
\* service, and no drop or revoke call was issued for them afterwards.
C23_NoRollback ==
  \A s \in Sessions :
    (cmd[s].op = "create" /\ pc[s] = "done" /\ result[s] = "MilvusException")
    => /\ \A i \in Made(s, "create_database") :
            /\ log[s][i].name \in databases
            /\ NoLater(s, i, "drop_database", log[s][i].name)
       /\ \A i \in Made(s, "create_user") :
            /\ log[s][i].name \in users
            /\ NoLater(s, i, "drop_user", log[s][i].name)
       /\ \A i \in Made(s, "create_role") :
            /\ log[s][i].name \in roles
            /\ NoLater(s, i, "drop_role", log[s][i].name)
       /\ \A i \in Made(s, "grant_privilege") :
            /\ [privilege |-> log[s][i].privilege,
                object_type |-> log[s][i].object_type,
                object_name |-> log[s][i].object_name] \in privs[log[s][i].role]
            /\ NoLater(s, i, "revoke_privilege", log[s][i].role)

\* create failed after it had made the database, the user and the role.
C23_Witness ==
  \E s \in Sessions :
    /\ cmd[s].op = "create" /\ pc[s] = "done" /\ result[s] = "MilvusException"
    /\ Made(s, "create_database") # {}
    /\ Made(s, "create_user") # {}
    /\ Made(s, "create_role") # {}
    /\ Made(s, "grant_privilege") # {}
    /\ cmd[s].database_name \in databases
    /\ cmd[s].user_name \in users

\* The positions of the calls of s that raised.
Raised(s) == {i \in DOMAIN log[s] : log[s][i].raised # "no"}

\* C24: a service call that raises ends the procedure: create, drop and
\* change-password issue no call that changes the service after it and do
\* not retry it (only the context switch of a finally clause may follow), so
\* after a failed revoke or role drop no drop_database is issued; the
\* command ends with the exception.
C24_FailureAborts ==
  \A s \in Sessions :
    cmd[s].op \in {"create", "drop", "change-password"} =>
      \A i \in Raised(s) :
        /\ \A j \in DOMAIN log[s] :
             j > i => /\ log[s][j].op \notin Mutating
                      /\ log[s][j].op = "using_database"
                      /\ cmd[s].op = "change-password"
        /\ pc[s] = "done" => result[s] \notin {"ok", "none", "running"}

\* drop ended at a revoke or a role drop that raised; the database is left.
C24_Witness ==
  \E s \in Sessions :
    /\ cmd[s].op = "drop" /\ pc[s] = "done"
    /\ \E i \in Raised(s) : log[s][i].op \in {"revoke_privilege", "drop_role"}
    /\ Issued(s, {"drop_database"}) = {}
    /\ cmd[s].database_name \in databases

\* C25: describe of a project whose database does not exist says so and
\* returns: it does not switch the database context and issues no
\* list_roles, list_users, list_collections or describe_role call.
C25_NothingToDescribe ==
  \A s \in Sessions :
    (cmd[s].op = "describe" /\ cmd[s].database_name \notin pre[s].databases) =>
      /\ Issued(s, {"using_database", "list_roles", "list_users",
                    "list_collections", "describe_role"}) = {}
      /\ ctx[s] = "default"
      /\ Listed(s) =>
           /\ pc[s] = "done" /\ result[s] = "ok"
           /\ Said(s, format_resource_status(cmd[s].database_name, FALSE,
                                             "database"))
           /\ Said(s, <<"No additional information (database does not exist)">>)
           /\ Len(log[s]) = 2

\* A describe found no database and said so, while the user and the role of
\* the project were there.
C25_Witness ==
  \E s \in Sessions :
    /\ cmd[s].op = "describe" /\ pc[s] = "done" /\ result[s] = "ok"
    /\ cmd[s].database_name \notin pre[s].databases
    /\ Said(s, <<"No additional information (database does not exist)">>)
    /\ {"user_p"} \subseteq users /\ {"role_p"} \subseteq roles

\* The existence check that create makes before each of its create calls.
CheckOf(op) ==
  CASE op = "create_database" -> "list_databases"
    [] op = "create_user" -> "list_users"
    [] op = "create_role" -> "list_roles"

\* The call of s at position i is a create call that the service refused
\* because the resource exists.
CreateRefused(s, i) ==
  /\ i \in Issued(s, {"create_database", "create_user", "create_role"})
  /\ log[s][i].raised = "refused"

\* C26: create checks and then acts, and nothing ties the two together: each
\* create call follows the check of the same session that found the
\* resource absent, and it meets a resource that exists exactly when the
\* create of another session made that resource in between.
C26_CheckThenAct ==
  \A s \in Sessions :
    cmd[s].op = "create" =>
      \A i \in Issued(s, {"create_database", "create_user", "create_role"}) :
        /\ \E c \in Made(s, CheckOf(log[s][i].op)) : c < i
        /\ CreateRefused(s, i) =>
             \E t \in Sessions \ {s} :
               /\ cmd[t].op = "create"
               /\ \E j \in Made(t, log[s][i].op) :
                    log[t][j].name = log[s][i].name

\* Two creates for the same project both found the database absent and both
\* issued create_database: the second one met the database of the first.
C26_Witness ==
  \E s \in Sessions, t \in Sessions :
    /\ s # t
    /\ cmd[s].op = "create" /\ cmd[t].op = "create"
    /\ cmd[s].variant = "helper" /\ cmd[t].variant = "helper"
    /\ cmd[s].project_name = cmd[t].project_name
    /\ ~loc[s].database_exists /\ ~loc[t].database_exists
    /\ Made(s, "create_database") # {}
    /\ \E i \in DOMAIN log[t] :
         CreateRefused(t, i) /\ log[t][i].op = "create_database"

====
